---------------------------- MODULE Spec2Model ----------------------------
(***************************************************************************)
(* A state-machine model of the Soy recursive-descent parser               *)
(* (src/parse/parse.go).                                                   *)
(*                                                                         *)
(* The Go call stack is the variable `stack`: one frame per active call of *)
(* a grammar procedure, holding the procedure's locals and the label of    *)
(* the place it resumes at.  One action per Go function; a step of an      *)
(* action runs the function's code from its current label up to its next   *)
(* call of another grammar procedure, its return, or the head of its next  *)
(* loop iteration.  The token helpers (next, backup, backup2, peek,        *)
(* expect, unexpected, errorf) run inline inside the step that calls them. *)
(* A panic raised by errorf unwinds to Soy/ParseExpr's deferred recover:   *)
(* the step that panics ends with status = "error" and an empty stack.     *)
(*                                                                         *)
(* Strings are sequences of atoms; an atom is one character or one         *)
(* maximal run of letters (the code never looks inside a run of letters:   *)
(* it compares whole strings, tests the first character for '.', searches  *)
(* for '.' and ',' and slices at those places).                            *)
(***************************************************************************)
EXTENDS Integers, Sequences, FiniteSets, TLC

VARIABLES
    entry,      \* which entry point is called: "Soy" or "ParseExpr"
    text,       \* the items the lexer produces for the input (before EOF)
    globals,    \* the globals map the caller passes to Soy
    trees,      \* the live tree values: <<file tree>> or <<file tree, quoted-expression tree>>
    stack,      \* the Go call stack of grammar procedures, innermost last
    ret,        \* the value returned by the call that returned last
    status,     \* "idle" (not called yet), "running", "ok" (returned node), "error" (returned err)
    node,       \* the entry point's result `node`
    err,        \* the entry point's result `err`
    reads,      \* the number of items received from the lexer so far, modulo two
    inOrder,    \* history: every next, backup, backup2 and peek so far left the pushback
                \* buffer holding the items last received from the lexer, in their order
    bundle,     \* the Bundle: its fields files, globals and err
    returned    \* what the last call on the bundle returned

parserVars == <<entry, text, globals, trees, stack, ret, status, node, err, reads, inOrder>>
bundleVars == <<bundle, returned>>
vars == <<entry, text, globals, trees, stack, ret, status, node, err, reads, inOrder,
          bundle, returned>>

----------------------------------------------------------------------------
(* Values *)

Nil == [type |-> "nil"]          \* a nil Node / nil pointer / nil error
NoItem == [typ |-> "zero", val |-> <<>>, pos |-> 0]   \* the zero item

Last(s) == s[Len(s)]
Front(s) == SubSeq(s, 1, Len(s) - 1)

RECURSIVE IndexFrom(_, _, _)
IndexFrom(s, c, i) ==            \* least j >= i with s[j] = c, or 0
    IF i > Len(s) THEN 0 ELSE IF s[i] = c THEN i ELSE IndexFrom(s, c, i + 1)

Index(s, c) == IndexFrom(s, c, 1)        \* strings.Index, 1-based, 0 for -1

RECURSIVE LastIndexFrom(_, _, _)
LastIndexFrom(s, c, i) ==
    IF i < 1 THEN 0 ELSE IF s[i] = c THEN i ELSE LastIndexFrom(s, c, i - 1)

LastIndex(s, c) == LastIndexFrom(s, c, Len(s))   \* strings.LastIndex

IsSpaceAtom(c) == c \in {" ", "\n", "\t", "\r"}

RECURSIVE TrimLeft(_)
TrimLeft(s) == IF s # <<>> /\ IsSpaceAtom(Head(s)) THEN TrimLeft(Tail(s)) ELSE s

RECURSIVE TrimRight(_)
TrimRight(s) == IF s # <<>> /\ IsSpaceAtom(Last(s)) THEN TrimRight(Front(s)) ELSE s

TrimSpace(s) == TrimRight(TrimLeft(s))           \* strings.TrimSpace

Digits == <<"0", "1", "2", "3", "4", "5", "6", "7", "8", "9">>

IsDigit(c) == \E d \in 1..10 : Digits[d] = c

DigitVal(c) == (CHOOSE d \in 1..10 : Digits[d] = c) - 1

RECURSIVE ParseIntFrom(_, _)
ParseIntFrom(s, acc) ==
    IF s = <<>> THEN acc ELSE ParseIntFrom(Tail(s), 10 * acc + DigitVal(Head(s)))

\* strconv.ParseInt(s, 10, _): [ok, value]
ParseInt(s) ==
    IF s # <<>> /\ \A i \in 1..Len(s) : IsDigit(s[i])
        THEN [ok |-> TRUE, value |-> ParseIntFrom(s, 0)]
        ELSE [ok |-> FALSE, value |-> 0]

\* strconv.Unquote on a double-quoted attribute value: [ok, value]
Unquote(s) ==
    IF Len(s) >= 2 /\ Head(s) = "\"" /\ Last(s) = "\""
        THEN [ok |-> TRUE, value |-> SubSeq(s, 2, Len(s) - 1)]
        ELSE [ok |-> FALSE, value |-> <<>>]

\* unquoteString on a single-quoted soy string literal: [ok, value]
unquoteString(s) ==
    IF Len(s) >= 2 /\ Head(s) = "'" /\ Last(s) = "'"
        THEN [ok |-> TRUE, value |-> SubSeq(s, 2, Len(s) - 1)]
        ELSE [ok |-> FALSE, value |-> <<>>]

----------------------------------------------------------------------------
(* The token source *)

\* The lexer over a sequence of items: it hands them out in order, each with
\* its position, and then end-of-input on every later read.
lex(items) == [items |-> items, i |-> 0]

EOFItem(l) == [typ |-> "itemEOF", val |-> <<>>, pos |-> Len(l.items) + 1]

nextItem(l) ==
    IF l.i < Len(l.items)
        THEN [item |-> [typ |-> l.items[l.i + 1].typ, val |-> l.items[l.i + 1].val,
                        pos |-> l.i + 1],
              lex |-> [l EXCEPT !.i = l.i + 1]]
        ELSE [item |-> EOFItem(l), lex |-> l]

IsLetters(c) == ~IsDigit(c) /\ ~IsSpaceAtom(c) /\
                c \notin {"$", ".", "(", ")", "+", "*", "'", "\"", ",", ":", "[", "]", "?"}

\* lexExpr: the items of an expression given as a string.
RECURSIVE lexExprFrom(_)
lexExprFrom(s) ==
    IF s = <<>> THEN <<>>
    ELSE LET c == Head(s) IN
      IF IsSpaceAtom(c) THEN lexExprFrom(Tail(s))
      ELSE IF c = "$" /\ Len(s) >= 2 /\ IsLetters(s[2])
        THEN <<[typ |-> "itemDollarIdent", val |-> <<"$", s[2]>>]>> \o lexExprFrom(SubSeq(s, 3, Len(s)))
      ELSE IF c = "." /\ Len(s) >= 2 /\ IsLetters(s[2])
        THEN <<[typ |-> "itemDotIdent", val |-> <<".", s[2]>>]>> \o lexExprFrom(SubSeq(s, 3, Len(s)))
      ELSE IF IsDigit(c)
        THEN <<[typ |-> "itemInteger", val |-> <<c>>]>> \o lexExprFrom(Tail(s))
      ELSE IF c = "(" THEN <<[typ |-> "itemLeftParen", val |-> <<c>>]>> \o lexExprFrom(Tail(s))
      ELSE IF c = ")" THEN <<[typ |-> "itemRightParen", val |-> <<c>>]>> \o lexExprFrom(Tail(s))
      ELSE IF c = "+" THEN <<[typ |-> "itemAdd", val |-> <<c>>]>> \o lexExprFrom(Tail(s))
      ELSE IF c = "*" THEN <<[typ |-> "itemMul", val |-> <<c>>]>> \o lexExprFrom(Tail(s))
      ELSE IF IsLetters(c) THEN <<[typ |-> "itemIdent", val |-> <<c>>]>> \o lexExprFrom(Tail(s))
      ELSE <<[typ |-> "itemError", val |-> <<c>>]>>

lexExpr(str) == lex(lexExprFrom(str))

----------------------------------------------------------------------------
(* The tree (parser context) and the machine *)

NoGlobals == <<>>        \* a nil map: every lookup misses

newTree(name, l, g) ==
    [name |-> name, lex |-> l, token |-> <<NoItem, NoItem>>, peekCount |-> 0,
     namespace |-> <<>>, aliases |-> <<>>, globals |-> g, root |-> Nil]

\* The machine a step works on: the variables a step may change, plus `tok`,
\* the item the last next/peek/expect of the step returned.
M == [trees |-> trees, stack |-> stack, ret |-> ret, status |-> status,
      node |-> node, err |-> err, reads |-> reads, inOrder |-> inOrder, tok |-> NoItem]

Commit(m) ==
    /\ trees' = m.trees
    /\ stack' = m.stack
    /\ ret' = m.ret
    /\ status' = m.status
    /\ node' = m.node
    /\ err' = m.err
    /\ reads' = m.reads
    /\ inOrder' = m.inOrder
    /\ UNCHANGED <<entry, text, globals, bundle, returned>>

Ok(m) == m.status = "running"

Cur(m) == Last(m.trees)                  \* the receiver `t` of the running method
SetCur(m, t) == [m EXCEPT !.trees[Len(m.trees)] = t]
Top(m) == Last(m.stack)

\* Replace the running frame (its locals or its resume label changed).
Goto(m, f) == IF ~Ok(m) THEN m ELSE [m EXCEPT !.stack[Len(m.stack)] = f]

\* Call g; the running frame resumes as f when g returns.
Call(m, f, g) == IF ~Ok(m) THEN m ELSE [m EXCEPT !.stack = Append(Front(m.stack), f) \o <<g>>]

\* `return g(...)`: g's result is the running frame's result.
TailCall(m, g) == IF ~Ok(m) THEN m ELSE [m EXCEPT !.stack = Append(Front(m.stack), g)]

Return(m, v) == IF ~Ok(m) THEN m ELSE [m EXCEPT !.stack = Front(m.stack), !.ret = v]

----------------------------------------------------------------------------
(* Helpers: next, backup, backup2, peek, errorf, unexpected, expect *)

\* A mutation of errorf that reports the error and lets the parse go on.
errorfNoAbort(m, msg) ==
    IF ~Ok(m) THEN m ELSE
    LET t == Cur(m)
        tok == IF t.peekCount > 0 THEN t.token[t.peekCount] ELSE t.token[1]
    IN [m EXCEPT !.err = [msg |-> msg, name |-> t.name, pos |-> tok.pos]]

\* errorf: the error is positioned at the current token (taking account of
\* backups); the panic unwinds every frame up to the entry point's recover,
\* which stores the error; `node` keeps its zero value.
errorf(m, msg) ==
    IF ~Ok(m) THEN m ELSE
    LET t == Cur(m)
        tok == IF t.peekCount > 0 THEN t.token[t.peekCount] ELSE t.token[1]
    IN [SetCur(m, [t EXCEPT !.root = Nil]) EXCEPT
            !.status = "error",
            !.stack = <<>>,
            !.err = [msg |-> msg, name |-> t.name, pos |-> tok.pos]]

\* The k-th item the lexer of tree t hands out.
Stream(t, k) ==
    IF k <= Len(t.lex.items)
        THEN [typ |-> t.lex.items[k].typ, val |-> t.lex.items[k].val, pos |-> k]
        ELSE EOFItem(t.lex)

\* The numbers the last item received can have in that sequence.
LastReceived(t) ==
    {k \in 1..(Len(t.lex.items) + 2) :
        \/ k = t.lex.i
        \/ k > Len(t.lex.items) /\ t.lex.i = Len(t.lex.items)}

\* What next() and peek() deliver from the buffer of tree t.
Pending(t) == t.token[t.peekCount]

CursorOk(t) ==
    /\ t.peekCount \in 0..2
    /\ t.peekCount > 0 =>
          \E c \in LastReceived(t) :
              /\ c >= t.peekCount
              /\ \A j \in 1..t.peekCount : t.token[j] = Stream(t, c - j + 1)
              /\ Pending(t) = Stream(t, c - t.peekCount + 1)

\* Record in the history whether the buffer of the running tree is still in order.
Tracked(m) == IF CursorOk(Cur(m)) THEN m ELSE [m EXCEPT !.inOrder = FALSE]

next(m) ==
    IF ~Ok(m) THEN m ELSE
    LET t == Cur(m) IN
    Tracked(
    IF t.peekCount > 0
        THEN [SetCur(m, [t EXCEPT !.peekCount = t.peekCount - 1])
                EXCEPT !.tok = t.token[(t.peekCount - 1) + 1]]
        ELSE LET r == nextItem(t.lex) IN
             [SetCur(m, [t EXCEPT !.token[1] = r.item, !.lex = r.lex])
                EXCEPT !.tok = r.item, !.reads = 1 - m.reads])

RECURSIVE nextNonComment(_)
nextNonComment(m) ==
    IF ~Ok(m) THEN m ELSE
    LET m1 == next(m) IN
    IF m1.tok.typ # "itemComment" THEN m1 ELSE nextNonComment(m1)

backup(m) ==
    IF ~Ok(m) THEN m ELSE
    LET t == Cur(m) IN Tracked(SetCur(m, [t EXCEPT !.peekCount = t.peekCount + 1]))

\* backup2 that counts two pending items without storing the older one.
backup2NoStore(m, t1) ==
    IF ~Ok(m) THEN m ELSE
    LET t == Cur(m) IN Tracked(SetCur(m, [t EXCEPT !.peekCount = 2]))

backup2(m, t1) ==
    IF ~Ok(m) THEN m ELSE
    LET t == Cur(m) IN Tracked(SetCur(m, [t EXCEPT !.token[2] = t1, !.peekCount = 2]))

peek(m) ==
    IF ~Ok(m) THEN m ELSE
    LET t == Cur(m) IN
    Tracked(
    IF t.peekCount > 0
        THEN [m EXCEPT !.tok = t.token[(t.peekCount - 1) + 1]]
        ELSE LET r == nextItem(t.lex) IN
             [SetCur(m, [t EXCEPT !.peekCount = 1, !.token[1] = r.item, !.lex = r.lex])
                EXCEPT !.tok = r.item, !.reads = 1 - m.reads])

unexpected(m, token, context) ==
    IF token.typ = "itemError"
        THEN errorf(m, "lexical error")
        ELSE errorf(m, context)

expect(m, expected, context) ==
    LET m1 == next(m) IN
    IF ~Ok(m1) THEN m1
    ELSE IF m1.tok.typ # expected THEN [unexpected(m1, m1.tok, context) EXCEPT !.tok = m1.tok]
    ELSE m1

isOneOf(tocheck, against) == \E i \in 1..Len(against) : tocheck = against[i]

allSpace(str) == \A i \in 1..Len(str) : IsSpaceAtom(str[i])

inStringSlice(item, group) == \E i \in 1..Len(group) : group[i] = item

----------------------------------------------------------------------------
(* Expressions *)

BinaryOps == {"itemMul", "itemDiv", "itemMod", "itemAdd", "itemSub",
              "itemEq", "itemNotEq", "itemGt", "itemGte", "itemLt", "itemLte",
              "itemOr", "itemAnd", "itemElvis"}

\* A mutation of the precedence table: + and * at one level.
precedenceFlat(typ) ==
    CASE typ \in {"itemNot", "itemNegate"} -> 6
      [] typ \in {"itemMul", "itemDiv", "itemMod"} -> 4
      [] typ \in {"itemAdd", "itemSub"} -> 4
      [] typ \in {"itemEq", "itemNotEq", "itemGt", "itemGte", "itemLt", "itemLte"} -> 3
      [] typ = "itemOr" -> 2
      [] typ = "itemAnd" -> 1
      [] OTHER -> 0

\* The precedence map; a type that is no key reads as 0.
precedence(typ) ==
    CASE typ \in {"itemNot", "itemNegate"} -> 6
      [] typ \in {"itemMul", "itemDiv", "itemMod"} -> 5
      [] typ \in {"itemAdd", "itemSub"} -> 4
      [] typ \in {"itemEq", "itemNotEq", "itemGt", "itemGte", "itemLt", "itemLte"} -> 3
      [] typ = "itemOr" -> 2
      [] typ = "itemAnd" -> 1
      [] typ = "itemElvis" -> 0
      [] OTHER -> 0

isBinaryOp(typ) == typ \in BinaryOps

isUnaryOp(t) == t.typ \in {"itemNot", "itemNegate"}

isValue(t) == t.typ \in {"itemNull", "itemBool", "itemInteger", "itemFloat",
                         "itemDollarIdent", "itemString", "itemIdent", "itemLeftBracket"}

OpName(typ) ==
    CASE typ = "itemMul" -> "*" [] typ = "itemDiv" -> "/" [] typ = "itemMod" -> "%"
      [] typ = "itemAdd" -> "+" [] typ = "itemSub" -> "-"
      [] typ = "itemEq" -> "=" [] typ = "itemNotEq" -> "!="
      [] typ = "itemGt" -> ">" [] typ = "itemGte" -> ">="
      [] typ = "itemLt" -> "<" [] typ = "itemLte" -> "<="
      [] typ = "itemOr" -> "or" [] typ = "itemAnd" -> "and" [] typ = "itemElvis" -> "?:"

newBinaryOpNode(t, n1, n2) ==
    [type |-> "BinaryOp", Name |-> OpName(t.typ), pos |-> t.pos, Arg1 |-> n1, Arg2 |-> n2]

newUnaryOpNode(t, n1) ==
    [type |-> IF t.typ = "itemNot" THEN "Not" ELSE "Negate", pos |-> t.pos, Arg |-> n1]

\* Frames of the expression procedures.
F_parseExpr(prec) == [proc |-> "parseExpr", pc |-> "start", prec |-> prec, n |-> Nil, tok |-> NoItem]
F_parseExprFirstTerm == [proc |-> "parseExprFirstTerm", pc |-> "start", tok |-> NoItem]
F_newValueNode(tok) == [proc |-> "newValueNode", pc |-> "start", tok |-> tok]
F_parseDataRef(tok) ==
    [proc |-> "parseDataRef", pc |-> "start", tok |-> tok, ref |-> Nil, atok |-> NoItem, nullsafe |-> 0]
F_parseListOrMap(token) == [proc |-> "parseListOrMap", pc |-> "start", token |-> token, firstExpr |-> Nil]
F_parseListLiteral(first, expr) ==
    [proc |-> "parseListLiteral", pc |-> "start", first |-> first, expr |-> expr, items |-> <<>>]
F_parseMapLiteral(first, expr) ==
    [proc |-> "parseMapLiteral", pc |-> "start", first |-> first, expr |-> expr,
     items |-> <<>>, key |-> <<>>]
F_parseTernary(cond) == [proc |-> "parseTernary", pc |-> "start", cond |-> cond, n1 |-> Nil]
F_newGlobalNode(tok, nxt) ==
    [proc |-> "newGlobalNode", pc |-> "start", tok |-> tok, next |-> nxt, name |-> <<>>]
F_newFunctionNode(tok) == [proc |-> "newFunctionNode", pc |-> "start", tok |-> tok, node |-> Nil]

\* The loop of parseExpr, from the head of an iteration, with n the left operand.
parseExprLoop(m, f, n) ==
    LET m1 == next(m)
        tok == m1.tok
        q == precedence(tok.typ)
    IN IF ~isBinaryOp(tok.typ) \/ q < f.prec
         THEN IF f.prec = 0 /\ tok.typ = "itemTernIf"
                THEN TailCall(m1, F_parseTernary(n))
                ELSE Return(backup(m1), n)
         ELSE Call(m1, [f EXCEPT !.pc = "rhs", !.n = n, !.tok = tok], F_parseExpr(q + 1))

parseExprStep(m, f) ==
    CASE f.pc = "start" -> Call(m, [f EXCEPT !.pc = "first"], F_parseExprFirstTerm)
      [] f.pc = "first" -> parseExprLoop(m, f, m.ret)
      [] f.pc = "rhs" -> parseExprLoop(m, f, newBinaryOpNode(f.tok, f.n, m.ret))

parseExprFirstTermStep(m, f) ==
    CASE f.pc = "start" ->
            LET m1 == next(m)
                tok == m1.tok
            IN IF isUnaryOp(tok)
                 THEN Call(m1, [f EXCEPT !.pc = "unary", !.tok = tok], F_parseExpr(precedence(tok.typ)))
               ELSE IF tok.typ = "itemLeftParen"
                 THEN Call(m1, [f EXCEPT !.pc = "paren"], F_parseExpr(0))
               ELSE IF isValue(tok)
                 THEN TailCall(m1, F_newValueNode(tok))
               ELSE unexpected(m1, tok, "soy expression")
      [] f.pc = "unary" -> Return(m, newUnaryOpNode(f.tok, m.ret))
      [] f.pc = "paren" -> Return(expect(m, "itemRightParen", "soy expression"), m.ret)

\* The model's inputs hold no itemFloat: the float case is left out.
newValueNodeStep(m, f) ==
    LET tok == f.tok IN
    CASE tok.typ = "itemNull" -> Return(m, [type |-> "Null", pos |-> tok.pos])
      [] tok.typ = "itemBool" ->
            Return(m, [type |-> "Bool", pos |-> tok.pos, True |-> (tok.val = <<"true">>)])
      [] tok.typ = "itemInteger" ->
            LET r == ParseInt(tok.val) IN
            IF ~r.ok THEN errorf(m, "strconv.ParseInt")
            ELSE Return(m, [type |-> "Int", pos |-> tok.pos, Value |-> r.value])
      [] tok.typ = "itemString" ->
            LET r == unquoteString(tok.val) IN
            IF ~r.ok THEN errorf(m, "error unquoting")
            ELSE Return(m, [type |-> "String", pos |-> tok.pos, Value |-> r.value])
      [] tok.typ = "itemLeftBracket" -> TailCall(m, F_parseListOrMap(tok))
      [] tok.typ = "itemDollarIdent" -> TailCall(m, F_parseDataRef(tok))
      [] tok.typ = "itemIdent" ->
            LET m1 == next(m) IN
            IF m1.tok.typ # "itemLeftParen"
                THEN TailCall(m1, F_newGlobalNode(tok, m1.tok))
                ELSE TailCall(m1, F_newFunctionNode(tok))


Drop(s, k) == SubSeq(s, k + 1, Len(s))       \* s[k:]

MapSet(mp, k, v) == (k :> v) @@ mp           \* mp[k] = v
MapHas(mp, k) == k \in DOMAIN mp             \* _, ok := mp[k]

parseDataRefLoop(m, f) ==
    LET m1 == next(m)
        tok == m1.tok
        ns == IF tok.typ \in {"itemQuestionDotIdent", "itemQuestionDotIndex", "itemQuestionKey"}
                THEN 1 ELSE 0
    IN CASE tok.typ \in {"itemQuestionDotIdent", "itemDotIdent"} ->
              Goto(m1, [f EXCEPT !.pc = "loop", !.ref.Access = Append(@,
                  [type |-> "DataRefKey", pos |-> tok.pos, NullSafe |-> (ns = 1),
                   Key |-> Drop(tok.val, ns + 1)])])
         [] tok.typ \in {"itemQuestionDotIndex", "itemDotIndex"} ->
              LET r == ParseInt(Drop(tok.val, ns + 1)) IN
              IF ~r.ok THEN errorf(m1, "strconv.ParseInt")
              ELSE Goto(m1, [f EXCEPT !.pc = "loop", !.ref.Access = Append(@,
                  [type |-> "DataRefIndex", pos |-> tok.pos, NullSafe |-> (ns = 1),
                   Index |-> r.value])])
         [] tok.typ \in {"itemQuestionKey", "itemLeftBracket"} ->
              Call(m1, [f EXCEPT !.pc = "key", !.atok = tok, !.nullsafe = ns], F_parseExpr(0))
         [] OTHER -> Return(backup(m1), f.ref)

parseDataRefStep(m, f) ==
    CASE f.pc = "start" ->
            parseDataRefLoop(m, [f EXCEPT !.ref =
                [type |-> "DataRef", pos |-> f.tok.pos, Key |-> Drop(f.tok.val, 1), Access |-> <<>>]])
      [] f.pc = "loop" -> parseDataRefLoop(m, f)
      [] f.pc = "key" ->
            LET accessNode == [type |-> "DataRefExpr", pos |-> f.atok.pos,
                               NullSafe |-> (f.nullsafe = 1), Arg |-> m.ret]
                m1 == expect(m, "itemRightBracket", "dataref")
            IN Goto(m1, [f EXCEPT !.pc = "loop", !.ref.Access = Append(@, accessNode)])

parseListOrMapStep(m, f) ==
    CASE f.pc = "start" ->
            LET m1 == next(m) IN
            CASE m1.tok.typ = "itemColon" ->
                    Return(expect(m1, "itemRightBracket", "map literal"),
                           [type |-> "MapLiteral", pos |-> f.token.pos, Items |-> <<>>])
              [] m1.tok.typ = "itemRightBracket" ->
                    Return(m1, [type |-> "ListLiteral", pos |-> f.token.pos, Items |-> <<>>])
              [] OTHER -> Call(backup(m1), [f EXCEPT !.pc = "first"], F_parseExpr(0))
      [] f.pc = "first" ->
            LET firstExpr == m.ret
                m1 == next(m)
                tok == m1.tok
            IN CASE tok.typ = "itemColon" -> TailCall(m1, F_parseMapLiteral(f.token, firstExpr))
                 [] tok.typ = "itemComma" -> TailCall(m1, F_parseListLiteral(f.token, firstExpr))
                 [] tok.typ = "itemRightBracket" ->
                        Return(m1, [type |-> "ListLiteral", pos |-> f.token.pos,
                                    Items |-> <<firstExpr>>])
                 [] OTHER -> unexpected(m1, tok, "list/map literal")

parseListLiteralStep(m, f) ==
    CASE f.pc = "start" ->
            Call(m, [f EXCEPT !.pc = "item", !.items = <<f.expr>>], F_parseExpr(0))
      [] f.pc = "item" ->
            LET items == Append(f.items, m.ret)
                m1 == next(m)
            IN IF m1.tok.typ = "itemRightBracket"
                 THEN Return(m1, [type |-> "ListLiteral", pos |-> f.first.pos, Items |-> items])
               ELSE IF m1.tok.typ # "itemComma"
                 THEN unexpected(m1, m1.tok, "parsing value list")
               ELSE Call(m1, [f EXCEPT !.items = items], F_parseExpr(0))

\* parseMapLiteral keeping the value written first for a repeated key.
parseMapLiteralKeepFirst(m, f) ==
    CASE f.pc = "start" ->
            IF f.expr.type # "String"
                THEN errorf(m, "expected a string as map key")
                ELSE Call(m, [f EXCEPT !.pc = "value", !.key = f.expr.Value], F_parseExpr(0))
      [] f.pc = "value" ->
            LET items == IF MapHas(f.items, f.key) THEN f.items ELSE MapSet(f.items, f.key, m.ret)
                m1 == next(m)
            IN IF m1.tok.typ = "itemRightBracket"
                 THEN Return(m1, [type |-> "MapLiteral", pos |-> f.first.pos, Items |-> items])
               ELSE IF m1.tok.typ # "itemComma"
                 THEN unexpected(m1, m1.tok, "map literal")
               ELSE LET m2 == expect(m1, "itemString", "map literal")
                        r == unquoteString(m2.tok.val)
                        m3 == IF Ok(m2) /\ ~r.ok THEN errorf(m2, "unquoteString") ELSE m2
                        m4 == expect(m3, "itemColon", "map literal")
                    IN Call(m4, [f EXCEPT !.items = items, !.key = r.value], F_parseExpr(0))

parseMapLiteralStep(m, f) ==
    CASE f.pc = "start" ->
            IF f.expr.type # "String"
                THEN errorf(m, "expected a string as map key")
                ELSE Call(m, [f EXCEPT !.pc = "value", !.key = f.expr.Value], F_parseExpr(0))
      [] f.pc = "value" ->
            LET items == MapSet(f.items, f.key, m.ret)
                m1 == next(m)
            IN IF m1.tok.typ = "itemRightBracket"
                 THEN Return(m1, [type |-> "MapLiteral", pos |-> f.first.pos, Items |-> items])
               ELSE IF m1.tok.typ # "itemComma"
                 THEN unexpected(m1, m1.tok, "map literal")
               ELSE LET m2 == expect(m1, "itemString", "map literal")
                        r == unquoteString(m2.tok.val)
                        m3 == IF Ok(m2) /\ ~r.ok THEN errorf(m2, "unquoteString") ELSE m2
                        m4 == expect(m3, "itemColon", "map literal")
                    IN Call(m4, [f EXCEPT !.items = items, !.key = r.value], F_parseExpr(0))

\* parseTernary that never takes the built node as the condition of another.
parseTernaryNoChain(m, f) ==
    CASE f.pc = "start" -> Call(m, [f EXCEPT !.pc = "n1"], F_parseExpr(0))
      [] f.pc = "n1" ->
            Call(expect(m, "itemColon", "ternary"), [f EXCEPT !.pc = "n2", !.n1 = m.ret],
                 F_parseExpr(0))
      [] f.pc = "n2" ->
            Return(peek(m), [type |-> "Tern", pos |-> f.cond.pos,
                             Arg1 |-> f.cond, Arg2 |-> f.n1, Arg3 |-> m.ret])

parseTernaryStep(m, f) ==
    CASE f.pc = "start" -> Call(m, [f EXCEPT !.pc = "n1"], F_parseExpr(0))
      [] f.pc = "n1" ->
            Call(expect(m, "itemColon", "ternary"), [f EXCEPT !.pc = "n2", !.n1 = m.ret],
                 F_parseExpr(0))
      [] f.pc = "n2" ->
            LET result == [type |-> "Tern", pos |-> f.cond.pos, Arg1 |-> f.cond,
                           Arg2 |-> f.n1, Arg3 |-> m.ret]
                m1 == peek(m)
            IN IF m1.tok.typ = "itemColon"
                 THEN TailCall(next(m1), F_parseTernary(result))
                 ELSE Return(m1, result)

\* A mutation of newGlobalNode: an absent name yields a node with a nil value.
newGlobalNodeDeferred(m, f) ==
    IF f.next.typ = "itemDotIdent"
        THEN LET m1 == next(m) IN
             Goto(m1, [f EXCEPT !.pc = "loop", !.name = (IF f.pc = "start" THEN f.tok.val ELSE f.name) \o f.next.val, !.next = m1.tok])
        ELSE LET m1 == backup(m)
                 name == IF f.pc = "start" THEN f.tok.val ELSE f.name
                 g == Cur(m1).globals
             IN Return(m1, [type |-> "Global", pos |-> f.tok.pos, Name |-> name,
                            Value |-> IF MapHas(g, name) THEN g[name] ELSE Nil])

\* One iteration of `for next.typ == itemDotIdent`, or the code after the loop.
newGlobalNodeStep(m, f) ==
    LET name == IF f.pc = "start" THEN f.tok.val ELSE f.name IN
    IF f.next.typ = "itemDotIdent"
        THEN LET m1 == next(m) IN
             Goto(m1, [f EXCEPT !.pc = "loop", !.name = name \o f.next.val, !.next = m1.tok])
        ELSE LET m1 == backup(m)
                 g == Cur(m1).globals
             IN IF MapHas(g, name)
                  THEN Return(m1, [type |-> "Global", pos |-> f.tok.pos, Name |-> name,
                                   Value |-> g[name]])
                  ELSE errorf(m1, "global is undefined")

newFunctionNodeStep(m, f) ==
    CASE f.pc = "start" ->
            LET fnode == [type |-> "Function", pos |-> f.tok.pos, Name |-> f.tok.val, Args |-> <<>>]
                m1 == peek(m)
            IN IF m1.tok.typ = "itemRightParen"
                 THEN Return(next(m1), fnode)
                 ELSE Call(m1, [f EXCEPT !.pc = "arg", !.node = fnode], F_parseExpr(0))
      [] f.pc = "arg" ->
            LET fnode == [f.node EXCEPT !.Args = Append(@, m.ret)]
                m1 == next(m)
                tok == m1.tok
            IN CASE tok.typ = "itemComma" -> Call(m1, [f EXCEPT !.node = fnode], F_parseExpr(0))
                 [] tok.typ = "itemRightParen" -> Return(m1, fnode)
                 [] tok.typ = "itemEOF" -> errorf(m1, "unexpected eof reading function params")
                 [] OTHER -> unexpected(m1, tok, "reading function params")

----------------------------------------------------------------------------
(* Statements *)

MapGet(mp, k) == IF k \in DOMAIN mp THEN mp[k] ELSE <<>>     \* mp[k], "" when absent

HasNewline(s) == \E i \in 1..Len(s) : s[i] = "\n"
LeadingSpace(s) == SubSeq(s, 1, Len(s) - Len(TrimLeft(s)))
TrailingSpace(s) == SubSeq(s, Len(TrimRight(s)) + 1, Len(s))

\* rawtext: whitespace at either end of the text is trimmed when it holds a
\* newline or when the text is next to a comment; the result may be empty.
rawtext(s, trimBefore, trimAfter) ==
    LET a == IF trimBefore \/ HasNewline(LeadingSpace(s)) THEN TrimLeft(s) ELSE s
    IN IF trimAfter \/ HasNewline(TrailingSpace(a)) THEN TrimRight(a) ELSE a

specialChars(typ) ==
    CASE typ = "itemNil" -> <<>>
      [] typ = "itemSpace" -> <<" ">>
      [] typ = "itemTab" -> <<"\t">>
      [] typ = "itemNewline" -> <<"\n">>
      [] typ = "itemCarriageReturn" -> <<"\r">>
      [] typ = "itemLeftBrace" -> <<"{">>
      [] typ = "itemRightBrace" -> <<"}">>

F_itemList(until) == [proc |-> "itemList", pc |-> "start", until |-> until, list |-> Nil]
F_textOrTag(token, until) ==
    [proc |-> "textOrTag", pc |-> "start", token |-> token, until |-> until,
     seenComment |-> FALSE, text |-> <<>>]
F_beginTag == [proc |-> "beginTag", pc |-> "start", token |-> NoItem]
F_parsePrint(token) ==
    [proc |-> "parsePrint", pc |-> "start", token |-> token, expr |-> Nil,
     directives |-> <<>>, dtok |-> NoItem, id |-> NoItem, args |-> <<>>]
F_parseAlias(token) ==
    [proc |-> "parseAlias", pc |-> "start", token |-> token, name |-> <<>>, lastSegment |-> <<>>]
F_parseLet(token) == [proc |-> "parseLet", pc |-> "start", token |-> token, name |-> NoItem]
F_parseCss(token) == [proc |-> "parseCss", pc |-> "start", token |-> token, cmdText |-> NoItem]
F_parseQuotedExpr(str) == [proc |-> "parseQuotedExpr", pc |-> "start", str |-> str]
F_parseAttrs(allowedNames) ==
    [proc |-> "parseAttrs", pc |-> "start", allowedNames |-> allowedNames, result |-> <<>>]
F_parseMsg(token) == [proc |-> "parseMsg", pc |-> "start", token |-> token, attrs |-> <<>>]
F_parseNamespace(token) == [proc |-> "parseNamespace", pc |-> "start", token |-> token, name |-> <<>>]
F_parseTemplate(token) ==
    [proc |-> "parseTemplate", pc |-> "start", token |-> token, id |-> NoItem,
     autoescape |-> "", private |-> FALSE, early |-> FALSE, name |-> <<>>]
F_parseSoyDoc(token) == [proc |-> "parseSoyDoc", pc |-> "start", token |-> token, params |-> <<>>]
F_parseCall(token) ==
    [proc |-> "parseCall", pc |-> "start", token |-> token, templateName |-> <<>>,
     attrs |-> <<>>, allData |-> FALSE, dataNode |-> Nil]
F_parseCallParams ==
    [proc |-> "parseCallParams", pc |-> "start", params |-> <<>>, key |-> <<>>,
     initial |-> NoItem, attrs |-> <<>>]
F_parseSwitch(token) ==
    [proc |-> "parseSwitch", pc |-> "start", token |-> token, switchValue |-> Nil, cases |-> <<>>]
F_parseCase(token) == [proc |-> "parseCase", pc |-> "start", token |-> token, values |-> <<>>]
F_parseFor(token) ==
    [proc |-> "parseFor", pc |-> "start", token |-> token, vartoken |-> NoItem,
     collection |-> Nil, body |-> Nil]
F_parseIf(token) ==
    [proc |-> "parseIf", pc |-> "start", token |-> token, conds |-> <<>>, isElse |-> FALSE,
     condExpr |-> Nil]

\* One iteration of itemList's loop up to its call of textOrTag.
itemListLoop(m, f) ==
    LET m1 == next(m)
        list == IF f.list = Nil THEN [type |-> "List", pos |-> m1.tok.pos, Nodes |-> <<>>]
                ELSE f.list
    IN Call(m1, [f EXCEPT !.pc = "got", !.list = list], F_textOrTag(m1.tok, f.until))

itemListStep(m, f) ==
    CASE f.pc = "start" -> itemListLoop(m, f)
      [] f.pc = "got" ->
            IF m.ret.halt THEN Return(m, f.list)
            ELSE IF m.ret.node # Nil
                THEN itemListLoop(m, [f EXCEPT !.list.Nodes = Append(@, m.ret.node)])
            ELSE itemListLoop(m, f)

\* textOrTag after its comment-skipping loop.
textOrTagMain(m, f) ==
    LET token == f.token IN
    IF isOneOf(token.typ, f.until) THEN Return(m, [node |-> Nil, halt |-> TRUE])
    ELSE LET m1 == next(m)
             token2 == m1.tok
         IN IF token.typ = "itemLeftDelim" /\ isOneOf(token2.typ, f.until)
              THEN Return(m1, [node |-> Nil, halt |-> TRUE])
            ELSE LET m2 == backup(m1) IN
              CASE token.typ = "itemText" -> Goto(m2, [f EXCEPT !.pc = "text", !.text = token.val])
                [] token.typ = "itemLeftDelim" -> Call(m2, [f EXCEPT !.pc = "wrap"], F_beginTag)
                [] token.typ = "itemSoyDocStart" ->
                        Call(m2, [f EXCEPT !.pc = "wrap"], F_parseSoyDoc(token))
                [] OTHER -> unexpected(m2, token, "input")

textOrTagSkip(m, f) ==
    IF f.token.typ = "itemComment"
        THEN LET m1 == next(m) IN Goto(m1, [f EXCEPT !.pc = "skip", !.token = m1.tok])
        ELSE textOrTagMain(m, f)

\* textOrTag whose text loop reads on over comments.
textOrTagOverComments(m, f) ==
    CASE f.pc = "start" ->
            textOrTagSkip(m, [f EXCEPT !.seenComment = (f.token.typ = "itemComment")])
      [] f.pc = "skip" -> textOrTagSkip(m, f)
      [] f.pc = "text" ->
            LET m1 == next(m)
                nxt == m1.tok
            IN IF nxt.typ = "itemText"
                 THEN Goto(m1, [f EXCEPT !.text = f.text \o nxt.val])
               ELSE IF nxt.typ = "itemComment"
                 THEN Goto(m1, f)
                 ELSE LET textvalue == rawtext(f.text, f.seenComment, FALSE) IN
                      Return(backup(m1),
                             [node |-> IF Len(textvalue) = 0 THEN Nil
                                       ELSE [type |-> "RawText", pos |-> f.token.pos,
                                             Text |-> textvalue],
                              halt |-> FALSE])
      [] f.pc = "wrap" -> Return(m, [node |-> m.ret, halt |-> FALSE])

textOrTagStep(m, f) ==
    CASE f.pc = "start" ->
            textOrTagSkip(m, [f EXCEPT !.seenComment = (f.token.typ = "itemComment")])
      [] f.pc = "skip" -> textOrTagSkip(m, f)
      [] f.pc = "text" ->
            LET m1 == next(m)
                nxt == m1.tok
            IN IF nxt.typ = "itemText"
                 THEN Goto(m1, [f EXCEPT !.text = f.text \o nxt.val])
                 ELSE LET textvalue == rawtext(f.text, f.seenComment, nxt.typ = "itemComment") IN
                      Return(backup(m1),
                             [node |-> IF Len(textvalue) = 0 THEN Nil
                                       ELSE [type |-> "RawText", pos |-> f.token.pos,
                                             Text |-> textvalue],
                              halt |-> FALSE])
      [] f.pc = "wrap" -> Return(m, [node |-> m.ret, halt |-> FALSE])

beginTagStep(m, f) ==
    CASE f.pc = "start" ->
        LET m1 == next(m)
            token == m1.tok
            typ == token.typ
        IN CASE typ = "itemNamespace" -> TailCall(m1, F_parseNamespace(token))
             [] typ = "itemTemplate" -> TailCall(m1, F_parseTemplate(token))
             [] typ = "itemIf" -> TailCall(m1, F_parseIf(token))
             [] typ = "itemMsg" -> TailCall(m1, F_parseMsg(token))
             [] typ \in {"itemForeach", "itemFor"} -> TailCall(m1, F_parseFor(token))
             [] typ = "itemSwitch" -> TailCall(m1, F_parseSwitch(token))
             [] typ = "itemCall" -> TailCall(m1, F_parseCall(token))
             [] typ = "itemLiteral" ->
                    LET m2 == expect(m1, "itemRightDelim", "literal")
                        m3 == expect(m2, "itemText", "literal")
                        n == [type |-> "RawText", pos |-> m3.tok.pos, Text |-> m3.tok.val]
                        m4 == expect(m3, "itemLeftDelim", "literal")
                        m5 == expect(m4, "itemLiteralEnd", "literal")
                        m6 == expect(m5, "itemRightDelim", "literal")
                    IN Return(m6, n)
             [] typ = "itemCss" -> TailCall(m1, F_parseCss(token))
             [] typ = "itemLog" ->
                    Call(expect(m1, "itemRightDelim", "log"),
                         [f EXCEPT !.pc = "log", !.token = token], F_itemList(<<"itemLogEnd">>))
             [] typ = "itemDebugger" ->
                    Return(expect(m1, "itemRightDelim", "debugger"),
                           [type |-> "Debugger", pos |-> token.pos])
             [] typ = "itemLet" -> TailCall(m1, F_parseLet(token))
             [] typ = "itemAlias" -> Call(m1, [f EXCEPT !.pc = "alias"], F_parseAlias(token))
             [] typ \in {"itemNil", "itemSpace", "itemTab", "itemNewline",
                         "itemCarriageReturn", "itemLeftBrace", "itemRightBrace"} ->
                    Return(expect(m1, "itemRightDelim", "special char"),
                           [type |-> "RawText", pos |-> token.pos, Text |-> specialChars(typ)])
             [] typ \in {"itemIdent", "itemDollarIdent", "itemNull", "itemBool", "itemFloat",
                         "itemInteger", "itemString", "itemNegate", "itemNot",
                         "itemLeftBracket"} ->
                    TailCall(backup(m1), F_parsePrint(token))
             [] typ = "itemPrint" -> TailCall(m1, F_parsePrint(token))
             [] OTHER -> errorf(m1, "not implemented")
      [] f.pc = "log" ->
            Return(expect(m, "itemRightDelim", "log"),
                   [type |-> "Log", pos |-> f.token.pos, Body |-> m.ret])
      [] f.pc = "alias" -> Return(m, Nil)

parsePrintStep(m, f) ==
    CASE f.pc = "start" -> Call(m, [f EXCEPT !.pc = "expr"], F_parseExpr(0))
      [] f.pc \in {"expr", "loop"} ->
            LET expr == IF f.pc = "expr" THEN m.ret ELSE f.expr
                m1 == next(m)
                tok == m1.tok
            IN CASE tok.typ = "itemRightDelim" ->
                      Return(m1, [type |-> "Print", pos |-> f.token.pos, Arg |-> expr,
                                  Directives |-> f.directives])
                 [] tok.typ = "itemPipe" ->
                      LET m2 == expect(m1, "itemIdent", "print directive") IN
                      Goto(m2, [f EXCEPT !.pc = "args", !.expr = expr, !.dtok = tok,
                                         !.id = m2.tok, !.args = <<>>])
                 [] OTHER -> unexpected(m1, tok, "print. (expected '|' or '}')")
      [] f.pc \in {"args", "arg"} ->
            LET args == IF f.pc = "arg" THEN Append(f.args, m.ret) ELSE f.args
                m1 == next(m)
            IN IF m1.tok.typ \in {"itemColon", "itemComma"}
                 THEN Call(m1, [f EXCEPT !.pc = "arg", !.args = args], F_parseExpr(0))
                 ELSE Goto(backup(m1),
                           [f EXCEPT !.pc = "loop", !.args = <<>>,
                               !.directives = Append(@, [type |-> "PrintDirective",
                                    pos |-> f.dtok.pos, Name |-> f.id.val, Args |-> args])])

\* A mutation of parseAlias: the alias is keyed by its first segment.
parseAliasFirstKey(m, f) ==
    CASE f.pc = "start" ->
            LET m1 == expect(m, "itemIdent", "alias") IN
            Goto(m1, [f EXCEPT !.pc = "loop", !.name = m1.tok.val, !.lastSegment = m1.tok.val])
      [] f.pc = "loop" ->
            LET m1 == next(m)
                nxt == m1.tok
                t == Cur(m1)
            IN CASE nxt.typ = "itemDotIdent" -> Goto(m1, [f EXCEPT !.name = f.name \o nxt.val])
                 [] nxt.typ = "itemRightDelim" ->
                      Return(SetCur(m1, [t EXCEPT !.aliases = MapSet(@, f.lastSegment, f.name)]), Nil)
                 [] OTHER -> unexpected(m1, nxt, "alias. (expected '}')")

parseAliasStep(m, f) ==
    CASE f.pc = "start" ->
            LET m1 == expect(m, "itemIdent", "alias") IN
            Goto(m1, [f EXCEPT !.pc = "loop", !.name = m1.tok.val, !.lastSegment = m1.tok.val])
      [] f.pc = "loop" ->
            LET m1 == next(m)
                nxt == m1.tok
                t == Cur(m1)
            IN CASE nxt.typ = "itemDotIdent" ->
                      Goto(m1, [f EXCEPT !.name = f.name \o nxt.val,
                                         !.lastSegment = Drop(nxt.val, 1)])
                 [] nxt.typ = "itemRightDelim" ->
                      Return(SetCur(m1, [t EXCEPT !.aliases = MapSet(@, f.lastSegment, f.name)]), Nil)
                 [] OTHER -> unexpected(m1, nxt, "alias. (expected '}')")

parseLetStep(m, f) ==
    CASE f.pc = "start" ->
            LET m1 == expect(m, "itemDollarIdent", "let")
                name == m1.tok
                m2 == next(m1)
                nxt == m2.tok
            IN CASE nxt.typ = "itemColon" ->
                      Call(m2, [f EXCEPT !.pc = "value", !.name = name], F_parseExpr(0))
                 [] nxt.typ = "itemRightDelim" ->
                      Call(m2, [f EXCEPT !.pc = "content", !.name = name],
                           F_itemList(<<"itemLetEnd">>))
                 [] OTHER -> unexpected(m2, nxt, "{let}")
      [] f.pc = "value" ->
            Return(expect(m, "itemRightDelimEnd", "let"),
                   [type |-> "LetValue", pos |-> f.token.pos, Name |-> Drop(f.name.val, 1),
                    Expr |-> m.ret])
      [] f.pc = "content" ->
            Return(expect(m, "itemRightDelim", "let"),
                   [type |-> "LetContent", pos |-> f.token.pos, Name |-> Drop(f.name.val, 1),
                    Body |-> m.ret])

parseCssStep(m, f) ==
    CASE f.pc = "start" ->
            LET m1 == expect(m, "itemText", "css")
                cmdText == m1.tok
                m2 == expect(m1, "itemRightDelim", "css")
                lastComma == LastIndex(cmdText.val, ",")
            IN IF lastComma = 0
                 THEN Return(m2, [type |-> "Css", pos |-> f.token.pos, Expr |-> Nil,
                                  Suffix |-> TrimSpace(cmdText.val)])
                 ELSE Call(m2, [f EXCEPT !.pc = "expr", !.cmdText = cmdText],
                           F_parseQuotedExpr(TrimSpace(SubSeq(cmdText.val, 1, lastComma - 1))))
      [] f.pc = "expr" ->
            Return(m, [type |-> "Css", pos |-> f.token.pos, Expr |-> m.ret,
                       Suffix |-> TrimSpace(Drop(f.cmdText.val, LastIndex(f.cmdText.val, ",")))])

\* A mutation of parseQuotedExpr: the new tree shares the caller's globals.
parseQuotedExprWithGlobals(m, f) ==
    CASE f.pc = "start" ->
            Call([m EXCEPT !.trees = Append(@, newTree(<<>>, lexExpr(f.str), Cur(m).globals))],
                 [f EXCEPT !.pc = "done"], F_parseExpr(0))
      [] f.pc = "done" -> Return([m EXCEPT !.trees = Front(@)], m.ret)

\* parseQuotedExpr: parseExpr(0) runs on a new tree that has only a lexer;
\* the new tree is dropped when the call returns.
parseQuotedExprStep(m, f) ==
    CASE f.pc = "start" ->
            Call([m EXCEPT !.trees = Append(@, newTree(<<>>, lexExpr(f.str), NoGlobals))],
                 [f EXCEPT !.pc = "done"], F_parseExpr(0))
      [] f.pc = "done" -> Return([m EXCEPT !.trees = Front(@)], m.ret)

\* One iteration of parseAttrs's loop.
parseAttrsStep(m, f) ==
    LET m1 == next(m)
        tok == m1.tok
    IN CASE tok.typ = "itemIdent" ->
              IF ~inStringSlice(tok.val, f.allowedNames)
                THEN unexpected(m1, tok, "attributes. allowed")
                ELSE LET m2 == expect(m1, "itemEquals", "attribute")
                         m3 == expect(m2, "itemString", "attribute")
                         r == Unquote(m3.tok.val)
                         m4 == Goto(m3, [f EXCEPT !.pc = "loop",
                                                  !.result = MapSet(@, tok.val, r.value)])
                     IN IF Ok(m3) /\ ~r.ok THEN errorf(m4, "strconv.Unquote") ELSE m4
         [] tok.typ \in {"itemRightDelim", "itemRightDelimEnd"} -> Return(backup(m1), [type |-> "attrs", Map |-> f.result])
         [] OTHER -> unexpected(m1, tok, "attributes")

\* parseAutoescape's switch; "" stands for the default branch (an error).
AutoescapeType(val) ==
    CASE val = <<>> -> "AutoescapeUnspecified"
      [] val = <<"contextual">> -> "AutoescapeContextual"
      [] val = <<"true">> -> "AutoescapeOn"
      [] val = <<"false">> -> "AutoescapeOff"
      [] OTHER -> ""

parseAutoescape(m, attrs) ==
    IF AutoescapeType(MapGet(attrs, <<"autoescape">>)) = ""
        THEN errorf(m, "expected true, false, or contextual for autoescape")
        ELSE m

boolAttr(m, attrs, key) ==
    IF MapHas(attrs, key) /\ attrs[key] \notin {<<"true">>, <<"false">>}
        THEN errorf(m, "expected 'true' or 'false'")
        ELSE m

boolAttrValue(attrs, key, defaultValue) ==
    IF ~MapHas(attrs, key) THEN defaultValue ELSE attrs[key] = <<"true">>

parseMsgStep(m, f) ==
    CASE f.pc = "start" ->
            Call(m, [f EXCEPT !.pc = "attrs"],
                 F_parseAttrs(<<<<"desc">>, <<"meaning">>, <<"hidden">>>>))
      [] f.pc = "attrs" ->
            LET attrs == m.ret.Map
                m1 == IF ~MapHas(attrs, <<"desc">>)
                        THEN errorf(m, "Tag 'msg' must have a 'desc' attribute") ELSE m
                m2 == expect(m1, "itemRightDelim", "msg")
            IN Call(m2, [f EXCEPT !.pc = "body", !.attrs = attrs], F_itemList(<<"itemMsgEnd">>))
      [] f.pc = "body" ->
            Return(expect(m, "itemRightDelim", "msg"),
                   [type |-> "Msg", pos |-> f.token.pos, Desc |-> MapGet(f.attrs, <<"desc">>),
                    Body |-> m.ret])

\* A mutation of parseNamespace: the one-namespace check is missing.
parseNamespaceNoCheck(m, f) ==
    CASE f.pc = "start" ->
            LET m1 == expect(m, "itemIdent", "namespace") IN
            Goto(m1, [f EXCEPT !.pc = "loop", !.name = m1.tok.val])
      [] f.pc = "loop" ->
            LET m1 == next(m) IN
            IF m1.tok.typ = "itemDotIdent"
                THEN Goto(m1, [f EXCEPT !.name = f.name \o m1.tok.val])
                ELSE Call(backup(m1), [f EXCEPT !.pc = "attrs"], F_parseAttrs(<<<<"autoescape">>>>))
      [] f.pc = "attrs" ->
            LET m1 == parseAutoescape(m, m.ret.Map)
                m2 == expect(m1, "itemRightDelim", "namespace")
                t == Cur(m2)
            IN Return(SetCur(m2, [t EXCEPT !.namespace = f.name]),
                      [type |-> "Namespace", pos |-> f.token.pos, Name |-> f.name,
                       Autoescape |-> AutoescapeType(MapGet(m.ret.Map, <<"autoescape">>))])

parseNamespaceStep(m, f) ==
    CASE f.pc = "start" ->
            LET m0 == IF Cur(m).namespace # <<>>
                        THEN errorf(m, "file may have only one namespace declaration") ELSE m
                m1 == expect(m0, "itemIdent", "namespace")
            IN Goto(m1, [f EXCEPT !.pc = "loop", !.name = m1.tok.val])
      [] f.pc = "loop" ->
            LET m1 == next(m) IN
            IF m1.tok.typ = "itemDotIdent"
                THEN Goto(m1, [f EXCEPT !.name = f.name \o m1.tok.val])
                ELSE Call(backup(m1), [f EXCEPT !.pc = "attrs"], F_parseAttrs(<<<<"autoescape">>>>))
      [] f.pc = "attrs" ->
            LET m1 == parseAutoescape(m, m.ret.Map)
                m2 == expect(m1, "itemRightDelim", "namespace")
                t == Cur(m2)
            IN Return(SetCur(m2, [t EXCEPT !.namespace = f.name]),
                      [type |-> "Namespace", pos |-> f.token.pos, Name |-> f.name,
                       Autoescape |-> AutoescapeType(MapGet(m.ret.Map, <<"autoescape">>))])

\* parseTemplate.  The composite literal reads t.namespace and calls
\* t.itemList; Go does not order a variable read against a call in the same
\* expression, so the name is built from the namespace as it is either before
\* the body is parsed (early) or after it.
parseTemplateStep(m, f, early) ==
    CASE f.pc = "start" ->
            LET m1 == expect(m, "itemDotIdent", "template tag") IN
            Call(m1, [f EXCEPT !.pc = "attrs", !.id = m1.tok],
                 F_parseAttrs(<<<<"autoescape">>, <<"private">>>>))
      [] f.pc = "attrs" ->
            LET attrs == m.ret.Map
                m1 == parseAutoescape(m, attrs)
                m2 == boolAttr(m1, attrs, <<"private">>)
                m3 == expect(m2, "itemRightDelim", "template tag")
            IN Call(m3, [f EXCEPT !.pc = "body",
                                  !.autoescape = AutoescapeType(MapGet(attrs, <<"autoescape">>)),
                                  !.private = boolAttrValue(attrs, <<"private">>, FALSE),
                                  !.early = early,
                                  !.name = IF early THEN Cur(m3).namespace \o f.id.val ELSE <<>>],
                    F_itemList(<<"itemTemplateEnd">>))
      [] f.pc = "body" ->
            LET tmpl == [type |-> "Template", pos |-> f.token.pos,
                         Name |-> IF f.early THEN f.name ELSE Cur(m).namespace \o f.id.val,
                         Body |-> m.ret, Autoescape |-> f.autoescape, Private |-> f.private]
            IN Return(expect(m, "itemRightDelim", "template tag"), tmpl)

\* One iteration of parseSoyDoc's loop.
parseSoyDocStep(m, f) ==
    LET m1 == next(m)
        nxt == m1.tok
    IN CASE nxt.typ = "itemText" -> Goto(m1, [f EXCEPT !.pc = "loop"])
         [] nxt.typ \in {"itemSoyDocOptionalParam", "itemSoyDocParam"} ->
              LET m2 == expect(m1, "itemIdent", "soydoc param") IN
              Goto(m2, [f EXCEPT !.pc = "loop", !.params = Append(@,
                    [type |-> "SoyDocParam", pos |-> nxt.pos, Name |-> m2.tok.val,
                     Optional |-> (nxt.typ = "itemSoyDocOptionalParam")])])
         [] nxt.typ = "itemSoyDocEnd" ->
              Return(m1, [type |-> "SoyDoc", pos |-> f.token.pos, Params |-> f.params])
         [] OTHER -> unexpected(m1, nxt, "soydoc")

\* A mutation of the name resolution: the alias replaces the whole name.
resolveTemplateNameWholeAlias(templateName, t) ==
    IF Head(templateName) = "."
        THEN t.namespace \o templateName
    ELSE LET dot == Index(templateName, ".") IN
         IF dot # 0 /\ MapHas(t.aliases, SubSeq(templateName, 1, dot - 1))
            THEN t.aliases[SubSeq(templateName, 1, dot - 1)]
            ELSE templateName

\* parseCall: "If it's not a fully qualified template name, apply the
\* namespace or aliases".
resolveTemplateName(templateName, t) ==
    IF Head(templateName) = "."
        THEN t.namespace \o templateName
    ELSE LET dot == Index(templateName, ".") IN
         IF dot # 0 /\ MapHas(t.aliases, SubSeq(templateName, 1, dot - 1))
            THEN t.aliases[SubSeq(templateName, 1, dot - 1)] \o Drop(templateName, dot - 1)
            ELSE templateName

CallAttrNames == <<<<"name">>, <<"data">>>>

\* parseCall from `switch tok := t.next()` after the attributes (and the data
\* expression) are read.
parseCallTail(m, f) ==
    LET m1 == next(m)
        tok == m1.tok
    IN CASE tok.typ = "itemRightDelimEnd" ->
              Return(m1, [type |-> "Call", pos |-> f.token.pos, Name |-> f.templateName,
                          AllData |-> f.allData, Data |-> f.dataNode, Params |-> <<>>])
         [] tok.typ = "itemRightDelim" -> Call(m1, [f EXCEPT !.pc = "params"], F_parseCallParams)
         [] OTHER -> unexpected(m1, tok, "error scanning {call}")

parseCallStep(m, f) ==
    CASE f.pc = "start" ->
            LET m1 == next(m)
                tok == m1.tok
            IN CASE tok.typ = "itemDotIdent" ->
                      Call(m1, [f EXCEPT !.pc = "attrs", !.templateName = tok.val],
                           F_parseAttrs(CallAttrNames))
                 [] tok.typ = "itemIdent" ->
                      LET m2 == next(m1)
                          tok2 == m2.tok
                      IN IF tok2.typ = "itemDotIdent"
                           THEN Goto(m2, [f EXCEPT !.pc = "name",
                                                   !.templateName = tok.val \o tok2.val])
                           ELSE Call(backup2(m2, tok), [f EXCEPT !.pc = "attrs"],
                                     F_parseAttrs(CallAttrNames))
                 [] OTHER -> Call(backup(m1), [f EXCEPT !.pc = "attrs"],
                                  F_parseAttrs(CallAttrNames))
      [] f.pc = "name" ->
            LET m1 == next(m) IN
            IF m1.tok.typ = "itemDotIdent"
                THEN Goto(m1, [f EXCEPT !.templateName = f.templateName \o m1.tok.val])
                ELSE Call(backup(m1), [f EXCEPT !.pc = "attrs"], F_parseAttrs(CallAttrNames))
      [] f.pc = "attrs" ->
            LET attrs == m.ret.Map
                written == IF f.templateName = <<>> THEN MapGet(attrs, <<"name">>)
                           ELSE f.templateName
            IN IF written = <<>> THEN errorf(m, "call: template name not found")
               ELSE LET f1 == [f EXCEPT !.templateName = resolveTemplateName(written, Cur(m)),
                                        !.attrs = attrs]
                    IN IF MapHas(attrs, <<"data">>)
                         THEN IF attrs[<<"data">>] = <<"all">>
                                THEN parseCallTail(m, [f1 EXCEPT !.allData = TRUE])
                                ELSE Call(m, [f1 EXCEPT !.pc = "data"],
                                          F_parseQuotedExpr(attrs[<<"data">>]))
                         ELSE parseCallTail(m, f1)
      [] f.pc = "data" -> parseCallTail(m, [f EXCEPT !.dataNode = m.ret])
      [] f.pc = "params" ->
            LET m1 == expect(m, "itemLeftDelim", "call")
                m2 == expect(m1, "itemCallEnd", "call")
                m3 == expect(m2, "itemRightDelim", "call")
            IN Return(m3, [type |-> "Call", pos |-> f.token.pos, Name |-> f.templateName,
                           AllData |-> f.allData, Data |-> f.dataNode, Params |-> m.ret.Nodes])

ParamAttrNames == <<<<"key">>, <<"value">>, <<"kind">>>>

\* parseCallParams from `if initial.typ != itemLeftDelim`.
parseCallParamsMain(m, f, initial) ==
    IF initial.typ # "itemLeftDelim" THEN unexpected(m, initial, "param list (expected '{')")
    ELSE LET m1 == next(m)
             cmd == m1.tok
         IN IF cmd.typ = "itemCallEnd" THEN Return(backup2(m1, initial), [type |-> "params", Nodes |-> f.params])
            ELSE IF cmd.typ # "itemParam" THEN errorf(m1, "expected param declaration")
            ELSE LET m2 == expect(m1, "itemIdent", "param")
                     firstIdent == m2.tok
                     m3 == next(m2)
                     tok == m3.tok
                     f1 == [f EXCEPT !.initial = initial]
                 IN CASE tok.typ = "itemColon" ->
                           Call(m3, [f1 EXCEPT !.pc = "value", !.key = firstIdent.val],
                                F_parseExpr(0))
                      [] tok.typ = "itemRightDelim" ->
                           Call(m3, [f1 EXCEPT !.pc = "content", !.key = firstIdent.val],
                                F_itemList(<<"itemParamEnd">>))
                      [] tok.typ = "itemIdent" ->
                           Call(backup(m3), [f1 EXCEPT !.pc = "attrs", !.key = firstIdent.val],
                                F_parseAttrs(ParamAttrNames))
                      [] tok.typ = "itemEquals" ->
                           Call(backup2(m3, firstIdent), [f1 EXCEPT !.pc = "attrs"],
                                F_parseAttrs(ParamAttrNames))
                      [] OTHER -> unexpected(m3, tok, "param. (expected ':', '}', or '=')")

\* One test of `for initial.typ == itemText` and the iteration or the exit it leads to.
parseCallParamsInitial(m, f, initial) ==
    IF initial.typ = "itemText"
        THEN IF Len(rawtext(initial.val, TRUE, TRUE)) # 0
               THEN unexpected(m, initial, "{call}, in between {param}'s (orphan content)")
               ELSE LET m1 == nextNonComment(m) IN
                    Goto(m1, [f EXCEPT !.pc = "initial", !.initial = m1.tok])
        ELSE parseCallParamsMain(m, f, initial)

parseCallParamsStep(m, f) ==
    CASE f.pc \in {"start", "loop"} ->
            LET m1 == nextNonComment(m) IN
            parseCallParamsInitial(m1, [f EXCEPT !.key = <<>>], m1.tok)
      [] f.pc = "initial" -> parseCallParamsInitial(m, f, f.initial)
      [] f.pc = "value" ->
            Goto(expect(m, "itemRightDelimEnd", "param"),
                 [f EXCEPT !.pc = "loop", !.params = Append(@,
                    [type |-> "CallParamValue", pos |-> f.initial.pos, Key |-> f.key,
                     Value |-> m.ret])])
      [] f.pc = "content" ->
            Goto(expect(m, "itemRightDelim", "param"),
                 [f EXCEPT !.pc = "loop", !.params = Append(@,
                    [type |-> "CallParamContent", pos |-> f.initial.pos, Key |-> f.key,
                     Content |-> m.ret])])
      [] f.pc = "attrs" ->
            LET attrs == m.ret.Map
                noKey == f.key = <<>> /\ ~MapHas(attrs, <<"key">>)
                key == IF f.key = <<>> THEN MapGet(attrs, <<"key">>) ELSE f.key
                m1 == IF noKey THEN errorf(m, "param key not found") ELSE m
            IN IF ~MapHas(attrs, <<"value">>)
                 THEN Call(expect(m1, "itemRightDelim", "param"),
                           [f EXCEPT !.pc = "content", !.key = key],
                           F_itemList(<<"itemParamEnd">>))
                 ELSE Call(m1, [f EXCEPT !.pc = "value", !.key = key],
                           F_parseQuotedExpr(attrs[<<"value">>]))

\* One iteration of parseSwitch's loop.
parseSwitchLoop(m, f) ==
    LET m1 == next(m)
        tok == m1.tok
        again == [f EXCEPT !.pc = "loop"]
    IN CASE tok.typ = "itemLeftDelim" -> Goto(m1, again)
         [] tok.typ = "itemText" ->
              IF allSpace(tok.val) THEN Goto(m1, again)
              ELSE unexpected(m1, tok, "between switch cases")
         [] tok.typ \in {"itemCase", "itemDefault"} ->
              Call(m1, [f EXCEPT !.pc = "case"], F_parseCase(tok))
         [] tok.typ = "itemSwitchEnd" ->
              Return(expect(m1, "itemRightDelim", "switch"),
                     [type |-> "Switch", pos |-> f.token.pos, Value |-> f.switchValue,
                      Cases |-> f.cases])
         [] OTHER -> Goto(m1, again)      \* the switch has no default case

parseSwitchStep(m, f) ==
    CASE f.pc = "start" -> Call(m, [f EXCEPT !.pc = "value"], F_parseExpr(0))
      [] f.pc = "value" ->
            Goto(expect(m, "itemRightDelim", "switch"),
                 [f EXCEPT !.pc = "loop", !.switchValue = m.ret])
      [] f.pc = "loop" -> parseSwitchLoop(m, f)
      [] f.pc = "case" -> parseSwitchLoop(m, [f EXCEPT !.cases = Append(@, m.ret)])

\* parseCase from `switch tok := t.next()`.
parseCaseAfter(m, f) ==
    LET m1 == next(m)
        tok == m1.tok
    IN CASE tok.typ = "itemComma" -> Goto(m1, [f EXCEPT !.pc = "start"])
         [] tok.typ = "itemRightDelim" ->
              Call(m1, [f EXCEPT !.pc = "body"],
                   F_itemList(<<"itemCase", "itemDefault", "itemSwitchEnd">>))
         [] OTHER -> unexpected(m1, tok, "switch case")

parseCaseStep(m, f) ==
    CASE f.pc = "start" ->
            IF f.token.typ # "itemDefault"
                THEN Call(m, [f EXCEPT !.pc = "value"], F_parseExpr(0))
                ELSE parseCaseAfter(m, f)
      [] f.pc = "value" -> parseCaseAfter(m, [f EXCEPT !.values = Append(@, m.ret)])
      [] f.pc = "body" ->
            Return(backup(m), [type |-> "SwitchCase", pos |-> f.token.pos,
                               Values |-> f.values, Body |-> m.ret])

\* A mutation of parseFor's requirement: any function call will do for `for`.
forCollectionOkAnyFunction(token, collection) ==
    CASE token.typ = "itemFor" -> collection.type = "Function"
      [] token.typ = "itemForeach" -> collection.type = "DataRef"
      [] OTHER -> TRUE

\* parseFor's requirement on the collection (its `switch token.typ`).
forCollectionOk(token, collection) ==
    CASE token.typ = "itemFor" ->
            collection.type = "Function" /\ collection.Name = <<"range">>
      [] token.typ = "itemForeach" -> collection.type = "DataRef"
      [] OTHER -> TRUE

ForNode(f, body, ifempty) ==
    [type |-> "For", pos |-> f.token.pos, Var |-> Drop(f.vartoken.val, 1),
     List |-> f.collection, Body |-> body, IfEmpty |-> ifempty]

parseForStep(m, f) ==
    CASE f.pc = "start" ->
            LET m1 == expect(m, "itemDollarIdent", "for")
                vartoken == m1.tok
                m2 == expect(m1, "itemIdent", "for")
                intoken == m2.tok
                m3 == IF Ok(m2) /\ intoken.val # <<"in">>
                        THEN unexpected(m2, intoken, "for loop (expected 'in')") ELSE m2
            IN Call(m3, [f EXCEPT !.pc = "coll", !.vartoken = vartoken], F_parseExpr(0))
      [] f.pc = "coll" ->
            LET collection == m.ret
                m1 == expect(m, "itemRightDelim", "foreach")
                m2 == IF Ok(m1) /\ ~forCollectionOk(f.token, collection)
                        THEN errorf(m1, IF f.token.typ = "itemFor"
                                          THEN "for: expected to iterate through range()"
                                          ELSE "foreach: expected to iterate through a variable")
                        ELSE m1
            IN Call(m2, [f EXCEPT !.pc = "body", !.collection = collection],
                    F_itemList(<<"itemIfempty", "itemForeachEnd", "itemForEnd">>))
      [] f.pc = "body" ->
            LET body == m.ret
                m1 == next(backup(m))
            IN IF m1.tok.typ = "itemIfempty"
                 THEN Call(expect(m1, "itemRightDelim", "ifempty"),
                           [f EXCEPT !.pc = "ifempty", !.body = body],
                           F_itemList(<<"itemForeachEnd", "itemForEnd">>))
                 ELSE Return(expect(m1, "itemRightDelim", "/foreach"), ForNode(f, body, Nil))
      [] f.pc = "ifempty" ->
            Return(expect(m, "itemRightDelim", "/foreach"), ForNode(f, f.body, m.ret))

IfUntil == <<"itemElseif", "itemElse", "itemIfEnd">>

parseIfStep(m, f) ==
    CASE f.pc = "start" ->
            IF ~f.isElse
                THEN Call(m, [f EXCEPT !.pc = "cond"], F_parseExpr(0))
                ELSE Call(expect(m, "itemRightDelim", "if"),
                          [f EXCEPT !.pc = "body", !.condExpr = Nil], F_itemList(IfUntil))
      [] f.pc = "cond" ->
            Call(expect(m, "itemRightDelim", "if"),
                 [f EXCEPT !.pc = "body", !.condExpr = m.ret], F_itemList(IfUntil))
      [] f.pc = "body" ->
            LET conds == Append(f.conds, [type |-> "IfCond", pos |-> f.token.pos,
                                          Cond |-> f.condExpr, Body |-> m.ret])
                m1 == next(backup(m))
                typ == m1.tok.typ
            IN CASE typ = "itemElseif" -> Goto(m1, [f EXCEPT !.pc = "start", !.conds = conds])
                 [] typ = "itemElse" ->
                      Goto(m1, [f EXCEPT !.pc = "start", !.conds = conds, !.isElse = TRUE])
                 [] typ = "itemIfEnd" ->
                      Return(expect(m1, "itemRightDelim", "/if"),
                             [type |-> "If", pos |-> f.token.pos, Conds |-> conds])
                 [] OTHER -> Goto(m1, [f EXCEPT !.pc = "start", !.conds = conds])

----------------------------------------------------------------------------
(* Entry points *)

F_Soy == [proc |-> "Soy", pc |-> "done"]
F_ParseExpr == [proc |-> "ParseExpr", pc |-> "done"]

FileName == <<"f">>      \* the name Soy is given for the input

\* Soy(name, text, globals): a fresh tree over lex's items; the body is
\* itemList(itemEOF); a panic is turned into err by the deferred recover.
SoyStep(m) ==
    IF m.status = "idle"
        THEN [m EXCEPT !.status = "running",
                       !.trees = <<newTree(FileName, lex(text), globals)>>,
                       !.stack = <<F_Soy, F_itemList(<<"itemEOF">>)>>]
        ELSE [SetCur(m, [Cur(m) EXCEPT !.root = m.ret]) EXCEPT
                       !.status = "ok", !.stack = <<>>,
                       !.node = [type |-> "SoyFile", Name |-> FileName, Body |-> m.ret.Nodes]]

\* ParseExpr(str): a fresh tree over lexExpr's items, with no globals.
ParseExprStep(m) ==
    IF m.status = "idle"
        THEN [m EXCEPT !.status = "running",
                       !.trees = <<newTree(<<>>, lex(text), NoGlobals)>>,
                       !.stack = <<F_ParseExpr, F_parseExpr(0)>>]
        ELSE [m EXCEPT !.status = "ok", !.stack = <<>>, !.node = m.ret]

----------------------------------------------------------------------------
(* Inputs: the items the lexer hands the parser, and the caller's globals *)

MaxOps == 2          \* binary operators in a generated operator expression
MaxTags == 3         \* tags in a generated sequence of tags
MaxElems == 3        \* elements or entries in a generated bracket literal
MaxBranches == 5     \* branches after the ? of a generated ternary
MaxFiles == 3        \* files in a bundle

I(typ, val) == [typ |-> typ, val |-> val]

IntItem(k) == I("itemInteger", <<Digits[k + 1]>>)
LD == I("itemLeftDelim", <<"{">>)
RD == I("itemRightDelim", <<"}">>)
RDE == I("itemRightDelimEnd", <<"/}">>)
Kw(typ) == I(typ, <<typ>>)
Ident(a) == I("itemIdent", <<a>>)
DotIdent(a) == I("itemDotIdent", <<".", a>>)
Dollar(a) == I("itemDollarIdent", <<"$", a>>)
AttrStr(content) == I("itemString", <<"\"">> \o content \o <<"\"">>)
SoyStr(content) == I("itemString", <<"'">> \o content \o <<"'">>)
Text(s) == I("itemText", s)
Eq == I("itemEquals", <<"=">>)
Comma == I("itemComma", <<",">>)
Colon == I("itemColon", <<":">>)
LP == I("itemLeftParen", <<"(">>)
RP == I("itemRightParen", <<")">>)
LB == I("itemLeftBracket", <<"[">>)
RB == I("itemRightBracket", <<"]">>)
Comment == I("itemComment", <<"/*", "*/">>)
Tag(body) == <<LD>> \o body \o <<RD>>

\* operand1 op1 operand2 op2 ... : every choice of the operators.
RECURSIVE OpExprs(_)
OpExprs(k) ==
    IF k = 0 THEN {<<IntItem(1)>>}
    ELSE {e \o <<I(op, <<OpName(op)>>), IntItem(k + 1)>> : e \in OpExprs(k - 1), op \in BinaryOps}

\* Expressions for the standalone ParseExpr.
ExprSamples ==
    { <<Ident("G")>>,
      <<Ident("a"), DotIdent("b")>>,
      <<IntItem(1), I("itemAdd", <<"+">>), Ident("G")>>,
      <<Ident("f"), LP, Dollar("x"), Comma, IntItem(2), RP>>,
      <<Ident("f"), LP, RP>>,
      <<Dollar("a"), I("itemQuestionDotIdent", <<"?", ".", "b">>), DotIdent("c"),
        I("itemDotIndex", <<".", "0">>), LB, IntItem(1), RB,
        I("itemQuestionKey", <<"?", "[">>), Dollar("k"), RB>>,
      <<LB, RB>>, <<LB, Colon, RB>>, <<LB, IntItem(1), RB>>,
      <<LB, IntItem(1), Comma, IntItem(2), RB>>,
      <<LB, SoyStr(<<"k">>), Colon, IntItem(1), Comma, SoyStr(<<"k">>), Colon, IntItem(2), RB>>,
      <<LB, IntItem(1), Colon, SoyStr(<<"a">>), RB>>,
      <<Dollar("c"), I("itemTernIf", <<"?">>), IntItem(1), Colon, IntItem(2)>>,
      <<Dollar("c"), I("itemTernIf", <<"?">>), IntItem(1), Colon, IntItem(2), Colon, IntItem(3)>>,
      <<Dollar("c"), I("itemTernIf", <<"?">>), IntItem(1), Colon, IntItem(2), Colon, IntItem(3),
        Colon, IntItem(4)>>,
      <<I("itemNegate", <<"-">>), IntItem(1), I("itemMul", <<"*">>), IntItem(2)>>,
      <<I("itemNot", <<"not">>), LP, I("itemBool", <<"true">>), I("itemOr", <<"or">>),
        I("itemNull", <<"null">>), RP>>,
      <<LP, IntItem(1)>>, <<I("itemMul", <<"*">>)>>, <<>> }

\* Bracket literals: elements and key: value entries joined by commas.
LiteralUnits ==
    { <<IntItem(1)>>, <<SoyStr(<<"a">>)>>,
      <<SoyStr(<<"a">>), Colon, IntItem(1)>>, <<SoyStr(<<"a">>), Colon, IntItem(2)>>,
      <<SoyStr(<<"b">>), Colon, IntItem(1)>>, <<IntItem(1), Colon, SoyStr(<<"a">>)>> }

RECURSIVE Joined(_)
Joined(n) ==
    IF n = 1 THEN LiteralUnits
    ELSE LET shorter == Joined(n - 1) IN
         shorter \cup {e \o <<Comma>> \o u : e \in shorter, u \in LiteralUnits}

LiteralInputs ==
    {<<LB>> \o e \o <<RB>> : e \in Joined(MaxElems)}
    \cup {<<LB, RB>>, <<LB, Colon, RB>>, <<LB, Colon>>, <<LB, IntItem(1), Comma, RB>>,
          <<LB, SoyStr(<<"a">>), Colon, IntItem(1), Comma, RB>>, <<LB, IntItem(1)>>,
          <<LB, Comma, RB>>}

\* Ternaries with n branches: 0 ? 1 : 2 : ... : n.
RECURSIVE TernChain(_)
TernChain(n) ==
    IF n = 1 THEN <<IntItem(0), I("itemTernIf", <<"?">>), IntItem(1)>>
    ELSE TernChain(n - 1) \o <<Colon, IntItem(n)>>

TernInputs == {TernChain(n) : n \in 1..MaxBranches}

ExprInputs ==
    UNION {OpExprs(k) : k \in 0..MaxOps} \cup ExprSamples \cup LiteralInputs \cup TernInputs

\* Every concatenation of at most n of the fragments.
RECURSIVE Concats(_, _)
Concats(frags, n) ==
    IF n = 0 THEN {<<>>}
    ELSE LET shorter == Concats(frags, n - 1) IN
         shorter \cup {e \o fr : e \in shorter, fr \in frags}

Prefixes(doc) == {SubSeq(doc, 1, k) : k \in 0..Len(doc)}

NsAB == Tag(<<Kw("itemNamespace"), Ident("a"), DotIdent("b")>>)
NsC == Tag(<<Kw("itemNamespace"), Ident("c")>>)
TplOpen == Tag(<<Kw("itemTemplate"), DotIdent("c")>>)
TplClose == Tag(<<Kw("itemTemplateEnd")>>)
Hello == <<Text(<<"hello">>)>>

\* Namespace and template tags in every order.
NamespaceInputs == Concats({NsAB, NsC, TplOpen, TplClose, Hello}, MaxTags + 1)

AliasXY == Tag(<<Kw("itemAlias"), Ident("x"), DotIdent("y")>>)      \* y -> x.y
AliasWX == Tag(<<Kw("itemAlias"), Ident("w"), DotIdent("x")>>)      \* x -> w.x
AliasZY == Tag(<<Kw("itemAlias"), Ident("z"), DotIdent("y")>>)      \* y -> z.y
CallTag(body) == <<LD, Kw("itemCall")>> \o body \o <<RDE>>
CallDotC == CallTag(<<DotIdent("c")>>)                              \* {call .c /}
CallYD == CallTag(<<Ident("y"), DotIdent("d")>>)                   \* {call y.d /}
CallXYD == CallTag(<<Ident("x"), DotIdent("y"), DotIdent("d")>>)   \* {call x.y.d /}
CallNameYD == CallTag(<<Ident("name"), Eq, AttrStr(<<"y", ".", "d">>)>>)  \* {call name="y.d" /}
CallNameDotC == CallTag(<<Ident("name"), Eq, AttrStr(<<".", "c">>)>>)     \* {call name=".c" /}
CallNameY == CallTag(<<Ident("name"), Eq, AttrStr(<<"y">>)>>)             \* {call name="y" /}

\* Alias and call tags in every order, after a namespace tag or without one.
CallFrags == {AliasXY, AliasWX, AliasZY, CallDotC, CallYD, CallXYD, CallNameYD}
CallInputs ==
    LET seqs == Concats(CallFrags, MaxTags) IN
    seqs \cup {NsAB \o e : e \in seqs}
         \cup {CallNameDotC, NsAB \o CallNameDotC, CallNameY, AliasXY \o CallNameY,
               CallTag(<<Ident("foo")>>), CallTag(<<>>),
               CallTag(<<Ident("name"), Eq, AttrStr(<<>>)>>)}

\* Prints of global references and quoted attribute expressions.
PrintTag(e) == Tag(e)
CallData(str) == CallTag(<<Ident("q"), DotIdent("r"), Ident("data"), Eq, AttrStr(str)>>)
CallParamValue(str) ==
    <<LD, Kw("itemCall"), DotIdent("c"), RD,
      LD, Kw("itemParam"), Ident("key"), Eq, AttrStr(<<"k">>), Ident("value"), Eq, AttrStr(str), RDE,
      LD, Kw("itemCallEnd"), RD>>
CssTag(str) == <<LD, Kw("itemCss"), Text(str), RD>>

QuotedStrs == {<<"G">>, <<"a", ".", "b">>, <<"U">>, <<"$", "x">>, <<"1", "+", "G">>,
               <<"f", "(", "G", ")">>, <<"all">>, <<"1">>}

GlobalInputs ==
    { PrintTag(<<Ident("G")>>), PrintTag(<<Ident("a"), DotIdent("b")>>),
      PrintTag(<<Ident("U")>>), PrintTag(<<Ident("G"), DotIdent("x")>>),
      PrintTag(<<Ident("a")>>),
      PrintTag(<<Ident("f"), LP, Ident("G"), RP>>),
      PrintTag(<<Ident("G"), I("itemAdd", <<"+">>), Ident("U")>>),
      PrintTag(<<Kw("itemPrint"), Ident("G"), I("itemPipe", <<"|">>), Ident("d"), Colon,
                 Ident("a"), DotIdent("b"), Comma, IntItem(1)>>),
      NsAB \o PrintTag(<<Ident("G")>>) \o PrintTag(<<Ident("a"), DotIdent("b")>>) }
    \cup {CallData(q) : q \in QuotedStrs}
    \cup {CallParamValue(q) : q \in QuotedStrs}
    \cup {CssTag(q \o <<",", " ", "foo">>) : q \in QuotedStrs}
    \cup {CssTag(<<"foo">>)}

G7 == (<<"G">> :> 7)
G7AB8 == (<<"G">> :> 7) @@ (<<"a", ".", "b">> :> 8)
GlobalTables == {<<>>, G7, G7AB8}

\* for and foreach over collection expressions of every shape.
Collections ==
    { <<Ident("range"), LP, IntItem(3), RP>>,
      <<Ident("range"), LP, RP>>,
      <<Dollar("items")>>,
      <<Dollar("a"), DotIdent("b")>>,
      <<Ident("f"), LP, IntItem(3), RP>>,
      <<Ident("range"), LP, IntItem(3), RP, I("itemAdd", <<"+">>), IntItem(1)>>,
      <<Dollar("a"), I("itemAdd", <<"+">>), Dollar("b")>>,
      <<LP, Dollar("items"), RP>>,
      <<LP, Ident("range"), LP, IntItem(3), RP, RP>>,
      <<I("itemNot", <<"not">>), Dollar("items")>>,
      <<Ident("G")>>,
      <<Ident("range")>>,
      <<LB, IntItem(1), RB>>,
      <<IntItem(1)>> }

ForTails ==
    { <<Text(<<"x">>), LD, Kw("itemForEnd"), RD>>,
      <<Text(<<"x">>), LD, Kw("itemForeachEnd"), RD>>,
      <<Text(<<"x">>), LD, Kw("itemIfempty"), RD, Text(<<"y">>), LD, Kw("itemForeachEnd"), RD>>,
      <<>> }

ForInputs ==
    {<<LD, Kw(k), Dollar("x"), Ident("in")>> \o c \o <<RD>> \o tl :
        k \in {"itemFor", "itemForeach"}, c \in Collections, tl \in ForTails}
    \cup {<<LD, Kw("itemFor"), Dollar("x"), Ident("of"), Dollar("items"), RD>>}

\* if and switch tags in every order.
IfOpen == Tag(<<Kw("itemIf"), Dollar("x")>>)
Elseif == Tag(<<Kw("itemElseif"), Dollar("y")>>)
Else == Tag(<<Kw("itemElse")>>)
IfEnd == Tag(<<Kw("itemIfEnd")>>)
SwitchOpen == Tag(<<Kw("itemSwitch"), Dollar("x")>>)
Case1 == Tag(<<Kw("itemCase"), IntItem(1), Comma, IntItem(2)>>)
Default == Tag(<<Kw("itemDefault")>>)
SwitchEnd == Tag(<<Kw("itemSwitchEnd")>>)

ControlInputs ==
    Concats({IfOpen, Elseif, Else, IfEnd, SwitchOpen, Case1, Default, SwitchEnd, Hello},
            MaxTags + 1)

\* Whole files, cut off after every item.
Doc1 ==
    <<Comment>> \o
    Tag(<<Kw("itemNamespace"), Ident("a"), DotIdent("b"), Ident("autoescape"), Eq,
          AttrStr(<<"true">>)>>) \o
    <<Text(<<"\n">>), I("itemSoyDocStart", <<"/**">>), Text(<<"doc">>),
      I("itemSoyDocParam", <<"@param">>), Ident("x"),
      I("itemSoyDocOptionalParam", <<"@param?">>), Ident("y"), I("itemSoyDocEnd", <<"*/">>)>> \o
    Tag(<<Kw("itemTemplate"), DotIdent("c"), Ident("private"), Eq, AttrStr(<<"false">>)>>) \o
    <<Text(<<"hello">>), Comment, Text(<<" ", "world">>), Text(<<"!">>)>> \o
    Tag(<<Dollar("x"), I("itemPipe", <<"|">>), Ident("esc"), Colon, IntItem(1), Comma, IntItem(2)>>) \o
    <<LD, Kw("itemCall"), DotIdent("d"), Ident("data"), Eq, AttrStr(<<"all">>), RD,
      Text(<<" ">>), Comment,
      LD, Kw("itemParam"), Ident("k"), Colon, IntItem(1), RDE,
      LD, Kw("itemParam"), Ident("k"), RD, Text(<<"t">>), LD, Kw("itemParamEnd"), RD,
      LD, Kw("itemParam"), Ident("key"), Eq, AttrStr(<<"k">>), Ident("value"), Eq,
          AttrStr(<<"$", "x">>), RDE,
      LD, Kw("itemParam"), Ident("key"), Eq, AttrStr(<<"k">>), RD, Text(<<"t">>),
          LD, Kw("itemParamEnd"), RD,
      LD, Kw("itemCallEnd"), RD>> \o
    CallTag(<<Ident("q"), DotIdent("r"), DotIdent("s"), Ident("data"), Eq, AttrStr(<<"$", "x">>)>>) \o
    TplClose

Doc2 ==
    IfOpen \o <<Text(<<"a">>)>> \o Elseif \o <<Text(<<"b">>)>> \o Else \o <<Text(<<"c">>)>> \o IfEnd \o
    SwitchOpen \o <<Text(<<" ">>)>> \o Case1 \o <<Text(<<"a">>)>> \o Default \o <<Text(<<"b">>)>> \o
    SwitchEnd \o
    <<LD, Kw("itemForeach"), Dollar("i"), Ident("in"), Dollar("items"), RD, Text(<<"x">>),
      LD, Kw("itemIfempty"), RD, Text(<<"y">>), LD, Kw("itemForeachEnd"), RD,
      LD, Kw("itemFor"), Dollar("i"), Ident("in"), Ident("range"), LP, IntItem(3), RP, RD,
      Text(<<"z">>), LD, Kw("itemForEnd"), RD>>

Doc3 ==
    <<LD, Kw("itemLet"), Dollar("a"), Colon, IntItem(1), RDE,
      LD, Kw("itemLet"), Dollar("b"), RD, Text(<<"t">>), LD, Kw("itemLetEnd"), RD,
      LD, Kw("itemMsg"), Ident("desc"), Eq, AttrStr(<<"d">>), RD, Text(<<"m">>),
          LD, Kw("itemMsgEnd"), RD,
      LD, Kw("itemCss"), Text(<<"$", "x", ",", " ", "foo">>), RD,
      LD, Kw("itemLog"), RD, Text(<<"l">>), LD, Kw("itemLogEnd"), RD,
      LD, Kw("itemDebugger"), RD,
      LD, Kw("itemLiteral"), RD, Text(<<"t">>), LD, Kw("itemLiteralEnd"), RD,
      LD, Kw("itemSpace"), RD>> \o
    AliasXY \o
    Tag(<<LB, IntItem(1), Comma, SoyStr(<<"a">>), Comma, LB, SoyStr(<<"k">>), Colon, IntItem(2), RB,
          Comma, LB, RB, Comma, LB, Colon, RB, RB>>) \o
    Tag(<<Dollar("a"), I("itemQuestionDotIdent", <<"?", ".", "b">>), LB, IntItem(0), RB,
          I("itemDotIndex", <<".", "1">>), I("itemTernIf", <<"?">>), Ident("f"), LP, RP, Colon,
          Ident("g"), LP, IntItem(1), Comma, Ident("G"), RP>>)

DocInputs == Prefixes(Doc1) \cup Prefixes(Doc2) \cup Prefixes(Doc3)

\* Raw text, comments and print tags in every order.
TextInputs ==
    Concats({<<Text(<<"a">>)>>, <<Text(<<" ">>)>>, <<Comment>>, PrintTag(<<Dollar("x")>>)},
            MaxTags + 1)

SoyTexts ==
    NamespaceInputs \cup CallInputs \cup ForInputs \cup ControlInputs \cup DocInputs
    \cup TextInputs

----------------------------------------------------------------------------
(* Actions *)

Running(p) == status = "running" /\ Top(M).proc = p

Soy ==
    /\ entry = "Soy"
    /\ status = "idle" \/ Running("Soy")
    /\ Commit(SoyStep(M))

ParseExpr ==
    /\ entry = "ParseExpr"
    /\ status = "idle" \/ Running("ParseExpr")
    /\ Commit(ParseExprStep(M))

itemList == Running("itemList") /\ Commit(itemListStep(M, Top(M)))
textOrTag == Running("textOrTag") /\ Commit(textOrTagStep(M, Top(M)))
beginTag == Running("beginTag") /\ Commit(beginTagStep(M, Top(M)))
parsePrint == Running("parsePrint") /\ Commit(parsePrintStep(M, Top(M)))
parseAlias == Running("parseAlias") /\ Commit(parseAliasStep(M, Top(M)))
parseLet == Running("parseLet") /\ Commit(parseLetStep(M, Top(M)))
parseCss == Running("parseCss") /\ Commit(parseCssStep(M, Top(M)))
parseCall == Running("parseCall") /\ Commit(parseCallStep(M, Top(M)))
parseCallParams == Running("parseCallParams") /\ Commit(parseCallParamsStep(M, Top(M)))
parseSwitch == Running("parseSwitch") /\ Commit(parseSwitchStep(M, Top(M)))
parseCase == Running("parseCase") /\ Commit(parseCaseStep(M, Top(M)))
parseFor == Running("parseFor") /\ Commit(parseForStep(M, Top(M)))
parseIf == Running("parseIf") /\ Commit(parseIfStep(M, Top(M)))
parseSoyDoc == Running("parseSoyDoc") /\ Commit(parseSoyDocStep(M, Top(M)))
parseAttrs == Running("parseAttrs") /\ Commit(parseAttrsStep(M, Top(M)))
parseMsg == Running("parseMsg") /\ Commit(parseMsgStep(M, Top(M)))
parseNamespace == Running("parseNamespace") /\ Commit(parseNamespaceStep(M, Top(M)))
parseTemplate ==
    /\ Running("parseTemplate")
    /\ \E early \in BOOLEAN : Commit(parseTemplateStep(M, Top(M), early))
parseQuotedExpr == Running("parseQuotedExpr") /\ Commit(parseQuotedExprStep(M, Top(M)))
parseExpr == Running("parseExpr") /\ Commit(parseExprStep(M, Top(M)))
parseExprFirstTerm == Running("parseExprFirstTerm") /\ Commit(parseExprFirstTermStep(M, Top(M)))
newValueNode == Running("newValueNode") /\ Commit(newValueNodeStep(M, Top(M)))
parseDataRef == Running("parseDataRef") /\ Commit(parseDataRefStep(M, Top(M)))
parseListOrMap == Running("parseListOrMap") /\ Commit(parseListOrMapStep(M, Top(M)))
parseListLiteral == Running("parseListLiteral") /\ Commit(parseListLiteralStep(M, Top(M)))
parseMapLiteral == Running("parseMapLiteral") /\ Commit(parseMapLiteralStep(M, Top(M)))
parseTernary == Running("parseTernary") /\ Commit(parseTernaryStep(M, Top(M)))
newGlobalNode == Running("newGlobalNode") /\ Commit(newGlobalNodeStep(M, Top(M)))
newFunctionNode == Running("newFunctionNode") /\ Commit(newFunctionNodeStep(M, Top(M)))

\* Before the call: the caller has chosen the entry point and its arguments.
Start(exprTexts, soyTexts, globalTexts) ==
    /\ \/ entry = "ParseExpr" /\ text \in exprTexts /\ globals = <<>>
       \/ entry = "Soy" /\ text \in soyTexts /\ globals = G7
       \/ entry = "Soy" /\ text \in globalTexts /\ globals \in GlobalTables
    /\ trees = <<>>
    /\ stack = <<>>
    /\ ret = Nil
    /\ status = "idle"
    /\ node = Nil
    /\ err = Nil
    /\ reads = 0
    /\ inOrder = TRUE
    /\ bundle = [files |-> <<>>, globals |-> <<>>, err |-> Nil]     \* no bundle in a parse
    /\ returned = Nil

Init == Start(ExprInputs, SoyTexts, GlobalInputs)

Next ==
    \/ Soy
    \/ ParseExpr
    \/ itemList
    \/ textOrTag
    \/ beginTag
    \/ parsePrint
    \/ parseAlias
    \/ parseLet
    \/ parseCss
    \/ parseCall
    \/ parseCallParams
    \/ parseSwitch
    \/ parseCase
    \/ parseFor
    \/ parseIf
    \/ parseSoyDoc
    \/ parseAttrs
    \/ parseMsg
    \/ parseNamespace
    \/ parseTemplate
    \/ parseQuotedExpr
    \/ parseExpr
    \/ parseExprFirstTerm
    \/ newValueNode
    \/ parseDataRef
    \/ parseListOrMap
    \/ parseListLiteral
    \/ parseMapLiteral
    \/ parseTernary
    \/ newGlobalNode
    \/ newFunctionNode

Spec == Init /\ [][Next]_vars

----------------------------------------------------------------------------
(* The bundle (src/bundle.go).  File names and contents are sequences of   *)
(* atoms; a globals map is a function from keys to values.                 *)

Error(msg, arg) == [type |-> "error", msg |-> msg, arg |-> arg]
soyFile(name, content) == [name |-> name, content |-> content]
NewBundle == [files |-> <<>>, globals |-> <<>>, err |-> Nil]

HasSuffix(s, suffix) ==
    Len(s) >= Len(suffix) /\ SubSeq(s, Len(s) - Len(suffix) + 1, Len(s)) = suffix

\* The file system the calls meet.  A file whose name holds "gone" cannot be
\* read or opened; a directory is the sequence of entries filepath.Walk visits,
\* each with the error Walk hands to the callback.
Unreadable(filename) == \E i \in 1..Len(filename) : filename[i] = "gone"
ReadFile(filename) ==
    IF Unreadable(filename)
        THEN [content |-> <<>>, err |-> Error("open", filename)]
        ELSE [content |-> <<"text of">> \o filename, err |-> Nil]

Entry(path, isDir, e) == [path |-> path, isDir |-> isDir, err |-> e]
Dir(root) ==
    CASE root = <<"d">> ->
            << Entry(<<"d">>, TRUE, Nil),
               Entry(<<"d", "/", "a", ".soy">>, FALSE, Nil),
               Entry(<<"d", "/", "notes", ".txt">>, FALSE, Nil),
               Entry(<<"d", "/", "gone", ".soy">>, FALSE, Nil) >>
      [] root = <<"e">> ->
            << Entry(<<"e">>, TRUE, Nil),
               Entry(<<"e", "/", "a", ".soy">>, FALSE, Nil),
               Entry(<<"e", "/", "sub">>, TRUE, Error("walk", <<"e", "/", "sub">>)),
               Entry(<<"e", "/", "z", ".soy">>, FALSE, Nil) >>
      [] OTHER -> << Entry(root, FALSE, Error("walk", root)) >>
Roots == {<<"d">>, <<"e">>, <<"missing">>}
TemplateFiles == {<<"a", ".soy">>, <<"gone", ".soy">>}
TemplateStrings == {<<"{namespace a}">>, <<"{">>}

\* What ParseGlobals can return for a globals file: the map read, and an error
\* with whatever it had read until then.
K1 == ("k1" :> 1)
K1K2 == ("k1" :> 2) @@ ("k2" :> 2)
K2 == ("k2" :> 3)
GlobalsFiles == {<<"g1">>, <<"g12">>, <<"bad">>, <<"gone">>}
ParseGlobals(filename) ==
    CASE filename = <<"g1">> -> {[globals |-> K1, err |-> Nil]}
      [] filename = <<"g12">> -> {[globals |-> K1K2, err |-> Nil]}
      [] OTHER -> {[globals |-> g, err |-> Error("globals", filename)] : g \in {<<>>, K2}}
GlobalsMaps == {<<>>, K1, K2, K1K2}

\* The orders in which `range` can visit the keys of a map.
Orders(g) ==
    {o \in [1..Cardinality(DOMAIN g) -> DOMAIN g] :
        \A i, j \in 1..Cardinality(DOMAIN g) : o[i] = o[j] => i = j}

AddTemplateStringStep(b, filename, soyfile) ==
    [b EXCEPT !.files = Append(@, soyFile(filename, soyfile))]

AddTemplateFileStep(b, filename) ==
    LET r == ReadFile(filename)
        b1 == IF r.err # Nil THEN [b EXCEPT !.err = r.err] ELSE b
    IN AddTemplateStringStep(b1, filename, r.content)

\* filepath.Walk with AddTemplateDir's callback, from entry k on: the bundle
\* after it and the error Walk returns.
RECURSIVE Walk(_, _, _)
Walk(b, entries, k) ==
    IF k > Len(entries) THEN [b |-> b, err |-> Nil]
    ELSE LET e == entries[k] IN
         IF e.err # Nil THEN [b |-> b, err |-> e.err]
         ELSE IF e.isDir THEN Walk(b, entries, k + 1)
         ELSE IF ~HasSuffix(e.path, <<".soy">>) THEN Walk(b, entries, k + 1)
         ELSE Walk(AddTemplateFileStep(b, e.path), entries, k + 1)

AddTemplateDirStep(b, root) ==
    LET w == Walk(b, Dir(root), 1) IN
    IF w.err # Nil THEN [w.b EXCEPT !.err = w.err] ELSE w.b

\* AddGlobalsMap that stores every value, also over a key already defined.
RECURSIVE AddGlobalsMapOverwrite(_, _, _)
AddGlobalsMapOverwrite(b, g, order) ==
    IF Len(order) = 0 THEN b
    ELSE LET k == order[1] IN
         AddGlobalsMapOverwrite([b EXCEPT !.globals = MapSet(@, k, g[k])], g, Tail(order))

\* AddGlobalsMap, its loop visiting the keys in the given order.
RECURSIVE AddGlobalsMapStep(_, _, _)
AddGlobalsMapStep(b, g, order) ==
    IF Len(order) = 0 THEN b
    ELSE LET k == order[1] IN
         IF MapHas(b.globals, k)
             THEN [b EXCEPT !.err = Error("global already defined", k)]
             ELSE AddGlobalsMapStep([b EXCEPT !.globals = MapSet(@, k, g[k])], g, Tail(order))

\* AddGlobalsFile; r is what ParseGlobals returns for the file.
AddGlobalsFileStep(b, filename, r, order) ==
    IF Unreadable(filename) THEN [b EXCEPT !.err = Error("open", filename)]
    ELSE LET b1 == IF r.err # Nil THEN [b EXCEPT !.err = r.err] ELSE b
         IN AddGlobalsMapStep(b1, r.globals, order)

\* Compile.  parse.SoyFile, Registry.Add and CheckDataRefs are not part of the
\* bundle: failAt says which of them fails, 0 for none, k for file k, and
\* one more than the number of files for CheckDataRefs.
CompileStep(b, failAt) ==
    IF b.err # Nil
        THEN [type |-> "compiled", registry |-> Nil, err |-> b.err, parsed |-> 0]
    ELSE IF failAt = 0
        THEN [type |-> "compiled",
              registry |-> [type |-> "registry",
                            Files |-> [i \in 1..Len(b.files) |-> b.files[i].name]],
              err |-> Nil, parsed |-> Len(b.files)]
    ELSE IF failAt <= Len(b.files)
        THEN [type |-> "compiled", registry |-> Nil,
              err |-> Error("compile", b.files[failAt].name), parsed |-> failAt]
    ELSE [type |-> "compiled", registry |-> Nil,
          err |-> Error("CheckDataRefs", <<>>), parsed |-> Len(b.files)]

ReturnsBundle(b) ==             \* a call that returns the bundle itself
    /\ Len(b.files) <= MaxFiles
    /\ bundle' = b
    /\ returned' = [type |-> "bundle"]
    /\ UNCHANGED parserVars

AddTemplateDir == \E root \in Roots : ReturnsBundle(AddTemplateDirStep(bundle, root))
AddTemplateFile == \E filename \in TemplateFiles : ReturnsBundle(AddTemplateFileStep(bundle, filename))
AddTemplateString ==
    \E filename \in TemplateFiles, soyfile \in TemplateStrings :
        ReturnsBundle(AddTemplateStringStep(bundle, filename, soyfile))
AddGlobalsFile ==
    \E filename \in GlobalsFiles : \E r \in ParseGlobals(filename) : \E order \in Orders(r.globals) :
        ReturnsBundle(AddGlobalsFileStep(bundle, filename, r, order))
AddGlobalsMap ==
    \E g \in GlobalsMaps : \E order \in Orders(g) : ReturnsBundle(AddGlobalsMapStep(bundle, g, order))
Compile ==
    \E failAt \in 0..(Len(bundle.files) + 1) :
        /\ returned' = CompileStep(bundle, failAt)
        /\ UNCHANGED <<bundle, parserVars>>

BundleInit ==
    /\ bundle = NewBundle
    /\ returned = Nil
    /\ entry = "Soy" /\ text = <<>> /\ globals = <<>>
    /\ trees = <<>> /\ stack = <<>> /\ ret = Nil /\ status = "idle"
    /\ node = Nil /\ err = Nil /\ reads = 0 /\ inOrder = TRUE

BundleNext ==
    \/ AddTemplateDir
    \/ AddTemplateFile
    \/ AddTemplateString
    \/ AddGlobalsFile
    \/ AddGlobalsMap
    \/ Compile

BundleSpec == BundleInit /\ [][BundleNext]_vars

----------------------------------------------------------------------------
(* Properties *)

\* What the input says, read off the items without parsing.
ItemAt(k) == IF k \in 1..Len(text) THEN text[k] ELSE [typ |-> "itemEOF", val |-> <<>>]

RECURSIVE DottedFrom(_)
DottedFrom(k) ==          \* the .segment items that start at item k, joined
    IF ItemAt(k).typ = "itemDotIdent" THEN ItemAt(k).val \o DottedFrom(k + 1) ELSE <<>>

DottedNameAt(k) == ItemAt(k).val \o DottedFrom(k + 1)      \* ident .seg .seg ...

RECURSIVE AttrFrom(_, _)
AttrFrom(k, name) ==      \* the value of attribute `name` in the name="value" list at item k
    IF ItemAt(k).typ = "itemIdent" /\ ItemAt(k + 1).typ = "itemEquals"
       /\ ItemAt(k + 2).typ = "itemString"
        THEN IF ItemAt(k).val = name
               THEN SubSeq(ItemAt(k + 2).val, 2, Len(ItemAt(k + 2).val) - 1)
               ELSE AttrFrom(k + 3, name)
        ELSE <<>>

HasType(r, ty) == "type" \in DOMAIN r /\ r.type = ty

Finished == status \in {"ok", "error"}
FileTree == trees[1]

(***************************************************************************)
(* C1.  parseExpr(0) on `a op1 b op2 c` yields op1(a, op2(b, c)) exactly   *)
(* when op2's precedence in the table (times, divide, modulo = 5; plus,    *)
(* minus = 4; comparisons = 3; or = 2; and = 1; elvis = 0) is greater      *)
(* than op1's, and                                                         *)
(* op2(op1(a, b), c) otherwise.                                            *)
(***************************************************************************)
TablePrec(typ) ==
    CASE typ \in {"itemMul", "itemDiv", "itemMod"} -> 5
      [] typ \in {"itemAdd", "itemSub"} -> 4
      [] typ \in {"itemEq", "itemNotEq", "itemGt", "itemGte", "itemLt", "itemLte"} -> 3
      [] typ = "itemOr" -> 2
      [] typ = "itemAnd" -> 1
      [] typ = "itemElvis" -> 0

IsThreeOperands ==
    /\ Len(text) = 5
    /\ \A k \in {1, 3, 5} : text[k].typ = "itemInteger"
    /\ \A k \in {2, 4} : text[k].typ \in BinaryOps

Operand(k) == [type |-> "Int", pos |-> k, Value |-> DigitVal(text[k].val[1])]
Applied(k, n1, n2) ==
    [type |-> "BinaryOp", Name |-> OpName(text[k].typ), pos |-> k, Arg1 |-> n1, Arg2 |-> n2]

C1_Grouping ==
    (entry = "ParseExpr" /\ IsThreeOperands /\ Finished) =>
        /\ status = "ok"
        /\ node = IF TablePrec(text[4].typ) > TablePrec(text[2].typ)
                    THEN Applied(2, Operand(1), Applied(4, Operand(3), Operand(5)))
                    ELSE Applied(4, Applied(2, Operand(1), Operand(3)), Operand(5))

C1_Witness ==
    /\ entry = "ParseExpr" /\ status = "ok"
    /\ text = <<IntItem(1), I("itemAdd", <<"+">>), IntItem(2), I("itemMul", <<"*">>), IntItem(3)>>
    /\ node.Name = "+" /\ node.Arg2.Name = "*"

(***************************************************************************)
(* C2.  The file-level parse terminates on every finite item sequence.     *)
(* The parser is deterministic in its state (context, call stack, last     *)
(* result), so it terminates only if no step of a running parse leaves     *)
(* that state as it was: such a step reads an item and is taken again      *)
(* forever.                                                                *)
(***************************************************************************)
ParserState == <<trees, stack, ret, status, node, err>>

C2_Terminates ==
    [][(entry = "Soy" /\ status = "running") => ParserState' # ParserState]_vars

(***************************************************************************)
(* C3.  Soy returns either (nodes, no error) or (no node, one error); the  *)
(* first failing check ends the parse at once: the call stack is unwound,  *)
(* nothing is read or built afterwards, and the error stays the one that   *)
(* was raised.                                                             *)
(***************************************************************************)
C3_SingleError ==
    [][entry = "Soy" =>
        /\ status' = "ok" => (node' # Nil /\ err' = Nil)
        /\ status' = "error" => (node' = Nil /\ err' # Nil /\ stack' = <<>>)
        /\ status' = "running" => (node' = Nil /\ err' = Nil)
        /\ Finished => UNCHANGED vars]_vars

C3_Witness ==
    /\ entry = "Soy" /\ status = "error"
    /\ node = Nil /\ err # Nil
    /\ FileTree.lex.i < Len(text)           \* items were left unread

(***************************************************************************)
(* C4.  The namespace of the file's context is assigned at most once: it   *)
(* is empty until a namespace tag is parsed, which sets it to a non-empty  *)
(* name; a namespace tag met afterwards ends the parse with an error, so   *)
(* a non-empty namespace never changes.                                    *)
(***************************************************************************)
Namespace == IF trees = <<>> THEN <<>> ELSE FileTree.namespace

C4_NamespaceOnce ==
    [][/\ Namespace # <<>> => Namespace' = Namespace
       /\ Namespace' # Namespace =>
            /\ Running("parseNamespace")
            /\ Namespace' # <<>>
            /\ HasType(ret', "Namespace") /\ ret'.Name = Namespace'
       /\ (Running("parseNamespace") /\ Top(M).pc = "start" /\ Namespace # <<>>) =>
            status' = "error"]_vars

C4_Witness ==
    /\ entry = "Soy" /\ status = "error"
    /\ err.msg = "file may have only one namespace declaration"
    /\ Namespace = <<"a", ".", "b">>

(***************************************************************************)
(* C5.  In the result of a successful parse of a file that declares        *)
(* namespace N, every template is named N + "." + short name, wherever     *)
(* the namespace tag stands relative to the template tag.                  *)
(***************************************************************************)
C5_TemplatesQualified ==
    (entry = "Soy" /\ status = "ok" /\ Namespace # <<>>) =>
        \A i \in DOMAIN node.Body :
            node.Body[i].type = "Template" =>
                node.Body[i].Name = Namespace \o ItemAt(node.Body[i].pos + 1).val

(***************************************************************************)
(* C6.  The name a call stores is its written name (bare, or the name=     *)
(* attribute) resolved in one of three ways: a name starting with "."      *)
(* gets the namespace put in front; else a name with a dot whose segment   *)
(* before the first dot is an alias key gets that segment replaced by the  *)
(* aliased path, once; else it is stored as written.                       *)
(***************************************************************************)
WrittenName(p) ==          \* p: the position of the call keyword
    IF ItemAt(p + 1).typ = "itemDotIdent" THEN DottedFrom(p + 1)
    ELSE IF ItemAt(p + 1).typ = "itemIdent" /\ ItemAt(p + 2).typ = "itemDotIdent"
        THEN DottedNameAt(p + 1)
    ELSE AttrFrom(p + 1, <<"name">>)

FirstDot(w) == CHOOSE i \in 1..Len(w) : w[i] = "." /\ \A j \in 1..(i - 1) : w[j] # "."
IsAliased(w, al) == (\E i \in 1..Len(w) : w[i] = ".") /\ SubSeq(w, 1, FirstDot(w) - 1) \in DOMAIN al

Resolved(w, ns, al, n) ==
    \/ w[1] = "." /\ n = ns \o w
    \/ w[1] # "." /\ IsAliased(w, al)
         /\ n = al[SubSeq(w, 1, FirstDot(w) - 1)] \o SubSeq(w, FirstDot(w), Len(w))
    \/ w[1] # "." /\ ~IsAliased(w, al) /\ n = w

CallFrame == stack[Len(stack)]
NameAfter ==               \* the call's name once the step is taken
    IF Len(stack') >= Len(stack) THEN stack'[Len(stack)].templateName ELSE ret'.Name

C6_CallResolution ==
    [][(entry = "Soy" /\ Running("parseCall") /\ status' = "running") =>
        IF CallFrame.pc = "attrs"
          THEN Resolved(WrittenName(CallFrame.token.pos), FileTree.namespace,
                        FileTree.aliases, NameAfter)
        ELSE IF CallFrame.pc \in {"data", "params"}
          THEN NameAfter = CallFrame.templateName
        ELSE TRUE]_vars

C6_Witness ==
    /\ entry = "Soy" /\ text = AliasXY \o CallNameYD
    /\ HasType(ret, "Call") /\ ret.Name = <<"x", ".", "y", ".", "d">>

(***************************************************************************)
(* C7.  An alias directive adds one entry, keyed by the last segment of    *)
(* its path and mapped to the whole path; nothing else changes the table;  *)
(* each call in the result carries the name computed from the directives   *)
(* that stand before it, whatever directives follow it.                    *)
(***************************************************************************)
LastSegment(path) ==
    LET dots == {i \in 1..Len(path) : path[i] = "."} IN
    IF dots = {} THEN path
    ELSE SubSeq(path, (CHOOSE i \in dots : \A j \in dots : j <= i) + 1, Len(path))

RECURSIVE AliasesBefore(_)
AliasesBefore(p) ==        \* the table the directives before item p make
    IF p <= 1 THEN <<>>
    ELSE IF ItemAt(p - 1).typ = "itemAlias"
        THEN (LastSegment(DottedNameAt(p)) :> DottedNameAt(p)) @@ AliasesBefore(p - 1)
        ELSE AliasesBefore(p - 1)

NamespaceBefore(p) ==
    IF \E k \in 1..(p - 1) : ItemAt(k).typ = "itemNamespace"
        THEN DottedNameAt((CHOOSE k \in 1..(p - 1) : ItemAt(k).typ = "itemNamespace") + 1)
        ELSE <<>>

C7_AliasNotRetroactive ==
    entry = "Soy" =>
        /\ trees # <<>> => \E p \in 1..(Len(text) + 1) : FileTree.aliases = AliasesBefore(p)
        /\ status = "ok" =>
            /\ FileTree.aliases = AliasesBefore(Len(text) + 1)
            /\ \A i \in DOMAIN node.Body :
                 node.Body[i].type = "Call" =>
                    Resolved(WrittenName(node.Body[i].pos), NamespaceBefore(node.Body[i].pos),
                             AliasesBefore(node.Body[i].pos), node.Body[i].Name)

C7_Witness ==
    /\ entry = "Soy" /\ status = "ok" /\ text = AliasXY \o CallYD \o AliasZY
    /\ node.Body[1].Name = <<"x", ".", "y", ".", "d">>
    /\ FileTree.aliases[<<"y">>] = <<"z", ".", "y">>

(***************************************************************************)
(* C8.  In the file's own context an identifier not followed by "(" is     *)
(* looked up in the caller's globals under its whole dotted name: present, *)
(* it yields a global node with that name and the value found; absent,     *)
(* the parse fails there with the undefined-global error.  The globals     *)
(* are not changed.                                                        *)
(***************************************************************************)
InFileContext == entry = "Soy" /\ Len(trees) = 1

C8_GlobalLookup ==
    [][/\ globals' = globals
       /\ (entry = "Soy" /\ trees' # <<>>) => trees'[1].globals = globals
       /\ (InFileContext /\ Running("newValueNode") /\ Top(M).tok.typ = "itemIdent"
             /\ ItemAt(Top(M).tok.pos + 1).typ # "itemLeftParen") =>
            Top(M)'.proc = "newGlobalNode"
       /\ (InFileContext /\ Running("newGlobalNode") /\ Top(M).next.typ # "itemDotIdent") =>
            LET name == DottedNameAt(Top(M).tok.pos) IN
            IF name \in DOMAIN globals
              THEN /\ status' = "running" /\ Len(stack') < Len(stack)
                   /\ ret' = [type |-> "Global", pos |-> Top(M).tok.pos, Name |-> name,
                              Value |-> globals[name]]
              ELSE /\ status' = "error" /\ node' = Nil
                   /\ err'.msg = "global is undefined"]_vars

C8_Witness ==
    /\ InFileContext /\ globals = G7AB8
    /\ HasType(ret, "Global") /\ ret.Name = <<"a", ".", "b">> /\ ret.Value = 8

(***************************************************************************)
(* C9.  The expression of a quoted attribute value, and the expression     *)
(* given to ParseExpr, is parsed in a new context without globals: a       *)
(* global reference in it ends the enclosing parse with the                *)
(* undefined-global error, whatever the caller's globals hold.             *)
(***************************************************************************)
InQuotedContext == (entry = "Soy" /\ Len(trees) = 2) \/ (entry = "ParseExpr" /\ Len(trees) = 1)

C9_NoGlobalsInQuoted ==
    [][/\ (Running("parseQuotedExpr") /\ Top(M).pc = "start") =>
            /\ Len(trees') = Len(trees) + 1
            /\ Last(trees').namespace = <<>> /\ Last(trees').aliases = <<>>
       /\ (InQuotedContext /\ Running("newGlobalNode") /\ Top(M).next.typ # "itemDotIdent") =>
            /\ status' = "error" /\ node' = Nil
            /\ err'.msg = "global is undefined"]_vars

C9_Witness ==
    /\ entry = "Soy" /\ text = CallData(<<"G">>) /\ globals = G7
    /\ status = "error" /\ err.msg = "global is undefined"

(***************************************************************************)
(* C10.  `for` gets past its collection only if the collection is a        *)
(* function node named range, `foreach` only if it is a data reference;    *)
(* with any other collection the parse fails and no for node is made.      *)
(***************************************************************************)
Required(kind, collection) ==
    \/ kind = "itemFor" /\ HasType(collection, "Function") /\ collection.Name = <<"range">>
    \/ kind = "itemForeach" /\ HasType(collection, "DataRef")

C10_ForCollection ==
    [][/\ (Running("parseFor") /\ Top(M).pc = "coll") =>
            LET kind == ItemAt(Top(M).token.pos).typ IN
            IF Required(kind, ret)
              THEN status' = "error" => err'.msg = "foreach"
              ELSE /\ status' = "error" /\ node' = Nil
                   /\ err'.msg \in {"foreach", "for: expected to iterate through range()",
                                    "foreach: expected to iterate through a variable"}
       /\ HasType(ret', "For") => Required(ItemAt(ret'.pos).typ, ret'.List)]_vars

C10_Witness ==
    /\ entry = "Soy" /\ status = "error"
    /\ ItemAt(2).typ = "itemFor" /\ ItemAt(5).typ = "itemDollarIdent" /\ ItemAt(6).typ = "itemRightDelim"
    /\ err.msg = "for: expected to iterate through range()"

(***************************************************************************)
(* C11.  After "[": `[]` is an empty list, `[:]` an empty map, elements    *)
(* joined by commas a list of them in the written order, entries           *)
(* key: value a map; a map is made only if every key is a string literal,  *)
(* and it has one entry per distinct key, with the value written last.     *)
(***************************************************************************)
IsBracketLiteral ==
    /\ Len(text) >= 2
    /\ text[1].typ = "itemLeftBracket" /\ text[Len(text)].typ = "itemRightBracket"
    /\ \A k \in 2..(Len(text) - 1) :
          text[k].typ \in {"itemInteger", "itemString", "itemColon", "itemComma"}

\* The places where the units of the literal start: after "[" and after each comma.
UnitStarts == {k \in 2..(Len(text) - 1) : text[k - 1].typ \in {"itemLeftBracket", "itemComma"}}
UnitEnd(k) ==              \* the last item of the unit that starts at k
    CHOOSE e \in k..(Len(text) - 1) :
        /\ text[e + 1].typ \in {"itemComma", "itemRightBracket"}
        /\ \A j \in k..e : text[j].typ # "itemComma"
IsValueItem(k) == text[k].typ \in {"itemInteger", "itemString"}
IsElement(k) == IsValueItem(k) /\ UnitEnd(k) = k
IsEntry(k) ==
    /\ UnitEnd(k) = k + 2
    /\ IsValueItem(k) /\ text[k + 1].typ = "itemColon" /\ IsValueItem(k + 2)
IsUnits ==                 \* every unit is an element or an entry, and none is empty
    /\ \A k \in 2..(Len(text) - 1) : text[k].typ = "itemComma" => k + 1 \in UnitStarts
    /\ \A k \in UnitStarts : text[k].typ # "itemComma" /\ (IsElement(k) \/ IsEntry(k))

Written(k) ==              \* the value node of the literal item k
    IF text[k].typ = "itemInteger"
        THEN [type |-> "Int", pos |-> k, Value |-> DigitVal(text[k].val[1])]
        ELSE [type |-> "String", pos |-> k, Value |-> SubSeq(text[k].val, 2, Len(text[k].val) - 1)]

RECURSIVE InOrder(_)
InOrder(starts) ==         \* the elements at these places, in the written order
    IF starts = {} THEN <<>>
    ELSE LET k == CHOOSE x \in starts : \A y \in starts : y <= x
         IN Append(InOrder(starts \ {k}), Written(k))

KeyAt(k) == Written(k).Value
LastWritten(key) == CHOOSE k \in UnitStarts : KeyAt(k) = key /\ \A j \in UnitStarts : KeyAt(j) = key => j <= k
ExpectedMap == [key \in {KeyAt(k) : k \in UnitStarts} |-> Written(LastWritten(key) + 2)]

C11_ListOrMap ==
    (entry = "ParseExpr" /\ IsBracketLiteral /\ Finished) =>
        IF Len(text) = 2
          THEN status = "ok" /\ node = [type |-> "ListLiteral", pos |-> 1, Items |-> <<>>]
        ELSE IF Len(text) = 3 /\ text[2].typ = "itemColon"
          THEN status = "ok" /\ node = [type |-> "MapLiteral", pos |-> 1, Items |-> <<>>]
        ELSE IF IsUnits /\ \A k \in UnitStarts : IsElement(k)
          THEN status = "ok"
               /\ node = [type |-> "ListLiteral", pos |-> 1, Items |-> InOrder(UnitStarts)]
        ELSE IF IsUnits /\ \A k \in UnitStarts : IsEntry(k) /\ text[k].typ = "itemString"
          THEN status = "ok" /\ node.type = "MapLiteral" /\ node.pos = 1
               /\ DOMAIN node.Items = DOMAIN ExpectedMap
               /\ \A key \in DOMAIN ExpectedMap : node.Items[key] = ExpectedMap[key]
        ELSE IF IsUnits
          THEN status = "error"           \* elements mixed with entries, or a key that is no string
        ELSE node.type # "MapLiteral"

C11_Witness ==
    /\ entry = "ParseExpr" /\ status = "ok"
    /\ text = <<LB, SoyStr(<<"a">>), Colon, IntItem(1), Comma, SoyStr(<<"b">>), Colon, IntItem(1),
                Comma, SoyStr(<<"a">>), Colon, IntItem(2), RB>>
    /\ node.type = "MapLiteral" /\ DOMAIN node.Items = {<<"a">>, <<"b">>}
    /\ node.Items[<<"a">>].Value = 2

(***************************************************************************)
(* C12.  A completed ternary followed by a bare ":" becomes the condition  *)
(* of another ternary.  As the claim has it, that ternary takes one more   *)
(* branch, so that `c ? x : y : z` is accepted (C12_OneMoreBranch).  As    *)
(* parseTernary does it, the outer ternary is parsed like the first one:   *)
(* it takes two more branches with a ":" between them, so a chain is       *)
(* accepted exactly when its number of branches is even, and the result    *)
(* nests to the left (C12_TwoMoreBranches).                                *)
(***************************************************************************)
IsTernChain ==
    /\ Len(text) >= 3 /\ Len(text) % 2 = 1
    /\ text[2].typ = "itemTernIf"
    /\ \A k \in 1..Len(text) :
          IF k % 2 = 1 THEN text[k].typ = "itemInteger"
          ELSE k > 2 => text[k].typ = "itemColon"

Branches == (Len(text) - 1) \div 2
Branch(k) == Written(2 * k + 1)           \* the k-th branch; the condition is Branch(0)
Tern(c, x, y) == [type |-> "Tern", pos |-> c.pos, Arg1 |-> c, Arg2 |-> x, Arg3 |-> y]

RECURSIVE Chained(_)
Chained(n) ==                             \* n even, n >= 2
    IF n = 2 THEN Tern(Branch(0), Branch(1), Branch(2))
    ELSE Tern(Chained(n - 2), Branch(n - 1), Branch(n))

C12_OneMoreBranch ==
    (entry = "ParseExpr" /\ IsTernChain /\ Branches = 3 /\ Finished) =>
        /\ status = "ok"
        /\ node.type = "Tern" /\ node.Arg1 = Tern(Branch(0), Branch(1), Branch(2))

C12_TwoMoreBranches ==
    (entry = "ParseExpr" /\ IsTernChain /\ Finished) =>
        IF Branches % 2 = 0
            THEN status = "ok" /\ node = Chained(Branches)
            ELSE status = "error"

C12_Witness ==
    /\ entry = "ParseExpr" /\ IsTernChain /\ Branches = 4 /\ status = "ok"
    /\ node.Arg1 = Tern(Branch(0), Branch(1), Branch(2))
    /\ node.Arg2 = Branch(3) /\ node.Arg3 = Branch(4)

(***************************************************************************)
(* C13.  Raw text in a body.  As the claim has it, a stretch of text and   *)
(* comment items with no tag in it yields at most one text node            *)
(* (C13_OneNodePerStretch).  As textOrTag does it, its loop joins          *)
(* consecutive text items only and stops at a comment: every maximal run   *)
(* of consecutive text items yields its own node, normalized with the      *)
(* knowledge of a comment on either side, and in the written order         *)
(* (C13_OneNodePerRun).                                                    *)
(***************************************************************************)
IsTextDoc ==               \* text, comments and print tags {$x} only
    /\ \A k \in 1..Len(text) :
          text[k].typ \in {"itemText", "itemComment", "itemLeftDelim", "itemDollarIdent",
                           "itemRightDelim"}
    /\ \A k \in 1..Len(text) :
          text[k].typ = "itemLeftDelim" =>
              ItemAt(k + 1).typ = "itemDollarIdent" /\ ItemAt(k + 2).typ = "itemRightDelim"

IsTextItem(k) == ItemAt(k).typ = "itemText"
IsCommentItem(k) == ItemAt(k).typ = "itemComment"
RunStarts == {k \in 1..Len(text) : IsTextItem(k) /\ ~IsTextItem(k - 1)}

RECURSIVE RunText(_)
RunText(k) == IF IsTextItem(k) THEN text[k].val \o RunText(k + 1) ELSE <<>>
RECURSIVE RunEnd(_)
RunEnd(k) == IF IsTextItem(k + 1) THEN RunEnd(k + 1) ELSE k
Normalized(k) == rawtext(RunText(k), IsCommentItem(k - 1), IsCommentItem(RunEnd(k) + 1))

RECURSIVE TextNodes(_)
TextNodes(starts) ==       \* the text nodes of these runs, in the written order
    IF starts = {} THEN <<>>
    ELSE LET k == CHOOSE x \in starts : \A y \in starts : y <= x
             before == TextNodes(starts \ {k})
         IN IF Len(Normalized(k)) = 0 THEN before
            ELSE Append(before, [type |-> "RawText", pos |-> k, Text |-> Normalized(k)])

IsRawText(n) == n.type = "RawText"
\* The stretch of text and comment items around item k.
RECURSIVE StretchStart(_)
StretchStart(k) == IF IsTextItem(k - 1) \/ IsCommentItem(k - 1) THEN StretchStart(k - 1) ELSE k

C13_OneNodePerStretch ==
    (entry = "Soy" /\ IsTextDoc /\ status = "ok") =>
        \A i, j \in 1..Len(node.Body) :
            (/\ IsRawText(node.Body[i]) /\ IsRawText(node.Body[j])
             /\ StretchStart(node.Body[i].pos) = StretchStart(node.Body[j].pos)) => i = j

C13_OneNodePerRun ==
    (entry = "Soy" /\ IsTextDoc /\ status = "ok") =>
        SelectSeq(node.Body, IsRawText) = TextNodes(RunStarts)

C13_Witness ==
    /\ entry = "Soy" /\ status = "ok"
    /\ text = <<Text(<<"a">>), Text(<<" ">>), Comment, Text(<<"a">>)>>
    /\ node.Body = <<[type |-> "RawText", pos |-> 1, Text |-> <<"a">>],
                     [type |-> "RawText", pos |-> 4, Text |-> <<"a">>]>>

(***************************************************************************)
(* C14.  The pushback buffer is a cursor over the items that is never      *)
(* more than two items back: peekCount is 0, 1 or 2, and the pending       *)
(* items, which next and peek deliver from the buffer, are the last        *)
(* peekCount items received from the lexer, in the order received.  The    *)
(* lexer has handed out the first lex.i items, and after them only the     *)
(* end-of-input item, any number of times.  CursorOk says so of one tree;  *)
(* inOrder records that it held after every single buffer operation, also  *)
(* those in the middle of a step.                                          *)
(***************************************************************************)
C14_PushbackCursor == inOrder /\ \A i \in 1..Len(trees) : CursorOk(trees[i])

C14_Witness ==
    /\ status = "running" /\ Len(trees) = 1
    /\ trees[1].peekCount = 2
    /\ trees[1].token[2].typ = "itemIdent" /\ trees[1].token[1].typ = "itemEquals"
    /\ Pending(trees[1]) = Stream(trees[1], trees[1].lex.i - 1)

(***************************************************************************)
(* C15.  Every if node of a successful parse has a well-formed arm list:   *)
(* the first arm has a condition, at most one arm has none, and that arm   *)
(* is the last one.  Stated of the if nodes in the body of the file.       *)
(***************************************************************************)
WellFormedArms(conds) ==
    /\ Len(conds) >= 1
    /\ conds[1].Cond # Nil
    /\ \A i \in 1..Len(conds) : conds[i].Cond = Nil => i = Len(conds)

C15_IfArms ==
    (entry = "Soy" /\ status = "ok") =>
        \A i \in 1..Len(node.Body) :
            node.Body[i].type = "If" => WellFormedArms(node.Body[i].Conds)

(***************************************************************************)
(* C16.  Between the header of a switch and its close only case and        *)
(* default clauses and whitespace text are accepted: a parse of            *)
(* `{switch $x}` followed by a tag that is not case, default or /switch    *)
(* fails, the tag is not skipped.                                          *)
(***************************************************************************)
StrayTagInSwitch ==
    /\ Len(text) >= 6
    /\ SubSeq(text, 1, 4) = SwitchOpen
    /\ text[5].typ = "itemLeftDelim"
    /\ text[6].typ \notin {"itemCase", "itemDefault", "itemSwitchEnd"}

C16_SwitchClauses ==
    (entry = "Soy" /\ StrayTagInSwitch /\ Finished) => status = "error"

(***************************************************************************)
(* C17.  The error a bundle has recorded is sticky: no call clears it,     *)
(* every Compile after it returns the recorded error with no registry and  *)
(* without parsing a file, and no call replaces the value of a global      *)
(* that the bundle already holds.                                          *)
(***************************************************************************)
ErrorKept == bundle.err # Nil => bundle'.err # Nil
CompileRefused ==
    (returned'.type = "compiled" /\ bundle.err # Nil) =>
        returned' = [type |-> "compiled", registry |-> Nil, err |-> bundle.err, parsed |-> 0]
GlobalsKept ==
    \A k \in DOMAIN bundle.globals :
        k \in DOMAIN bundle'.globals /\ bundle'.globals[k] = bundle.globals[k]

C17_StickyError == [][ErrorKept /\ CompileRefused /\ GlobalsKept]_vars

C17_Witness ==
    /\ returned.type = "compiled" /\ returned.err = Error("global already defined", "k1")
    /\ returned.registry = Nil /\ returned.parsed = 0
    /\ Len(bundle.files) > 0
    /\ bundle.globals = ("k1" :> 1) @@ ("k2" :> 2)

=============================================================================
